---- MODULE Spec2Model ----
(***************************************************************************)
(* Model of the inventory analyser of src/ana.py: value coercion           *)
(* (safe_float_convert, safe_int_convert), the variance classifier         *)
(* (calculate_variance, determine_status, process_data) and the vendor     *)
(* aggregator (get_vendor_summary).                                        *)
(*                                                                         *)
(* Python floats are IEEE 754 doubles: every operation rounds its result   *)
(* to the nearest double, so 0.1 + 0.2 is 0.30000000000000004.  Python     *)
(* ints have no width.  Python strings are sequences of the code points of *)
(* their characters (Unicode 14.0.0, as of Python 3.11).                   *)
(***************************************************************************)
EXTENDS Integers, Sequences, FiniteSets, TLC

VARIABLES pc,
          inventory_data, tolerance, processed_data, summary_data, vendor_summary,
          qty, rm, variance,
          variance_percent, tol, status,
          value, float_result, int_result,
          upload, df, resolved, standardized,
          top_parts, vendor_top_parts

vars == <<pc, inventory_data, tolerance, processed_data, summary_data, vendor_summary,
          qty, rm, variance, variance_percent, tol, status,
          value, float_result, int_result,
          upload, df, resolved, standardized, top_parts, vendor_top_parts>>

pipeline_vars == <<inventory_data, tolerance, processed_data, summary_data, vendor_summary>>
variance_vars == <<qty, rm, variance>>
status_vars == <<variance_percent, tol, status>>
convert_vars == <<value, float_result, int_result>>
ingest_vars == <<upload, df, resolved, standardized>>
chart_vars == <<top_parts, vendor_top_parts>>

-----------------------------------------------------------------------------
(* Bounds of the model.                                                    *)

MaxItems == 2
MaxWideQty == 30
MaxWideNorm == 20
MaxArg == 6
MaxDen == 2
MaxLen == 4
MaxCols == 4
MaxRows == 2
MaxMainRows == 1
MaxRankItems == 3
MaxSignItems == 4
MaxLongItems == 11
MaxInfItems == 3
MaxNanItems == 7

-----------------------------------------------------------------------------
(* Natural numbers of any size.  A natural number is the sequence of its   *)
(* digits in base 2^15, least significant first, without a leading zero    *)
(* digit: Python's int has no width, and the 53-bit significand of a float *)
(* and its products need more than one machine word.                       *)

Base == 2^15
DigitBits == 15

Abs(x) == IF x < 0 THEN -x ELSE x

Pow2(k) == 2^k

RECURSIVE NatOf(_)
NatOf(k) == IF k = 0 THEN <<>> ELSE <<k % Base>> \o NatOf(k \div Base)

\* the digits of a without its leading zeros
Trim(a) ==
    IF \A i \in 1..Len(a) : a[i] = 0 THEN <<>>
    ELSE SubSeq(a, 1, CHOOSE i \in 1..Len(a) :
                          a[i] # 0 /\ \A j \in (i + 1)..Len(a) : a[j] = 0)

Digit(a, i) == IF i <= Len(a) THEN a[i] ELSE 0

\* -1, 0 or 1 as a < b, a = b or a > b
NatCmp(a, b) ==
    IF Len(a) # Len(b) THEN (IF Len(a) < Len(b) THEN -1 ELSE 1)
    ELSE IF a = b THEN 0
    ELSE IF Len(a) = 1 THEN (IF a[1] < b[1] THEN -1 ELSE 1)
    ELSE LET i == CHOOSE k \in 1..Len(a) :
                      a[k] # b[k] /\ \A j \in (k + 1)..Len(a) : a[j] = b[j]
         IN  IF a[i] < b[i] THEN -1 ELSE 1

\* the carry into digit i of a + b: a lower digit overflows and every digit
\* between it and i passes the carry on
Carry(a, b, i) ==
    \E j \in 1..(i - 1) :
        /\ Digit(a, j) + Digit(b, j) >= Base
        /\ \A k \in (j + 1)..(i - 1) : Digit(a, k) + Digit(b, k) = Base - 1

NatAdd(a, b) ==
    IF a = <<>> THEN b
    ELSE IF b = <<>> THEN a
    ELSE IF Len(a) = 1 /\ Len(b) = 1 /\ a[1] + b[1] < Base THEN <<a[1] + b[1]>>
    ELSE LET n == IF Len(a) < Len(b) THEN Len(b) ELSE Len(a)
         IN  Trim([i \in 1..(n + 1) |->
                      (Digit(a, i) + Digit(b, i) + IF Carry(a, b, i) THEN 1 ELSE 0) % Base])

\* the borrow from digit i of a - b
Borrow(a, b, i) ==
    \E j \in 1..(i - 1) :
        /\ a[j] < Digit(b, j)
        /\ \A k \in (j + 1)..(i - 1) : a[k] = Digit(b, k)

\* a - b for a >= b
NatSub(a, b) ==
    IF b = <<>> THEN a
    ELSE IF Len(a) = 1 THEN (IF a[1] = b[1] THEN <<>> ELSE <<a[1] - b[1]>>)
    ELSE Trim([i \in 1..Len(a) |->
                  (a[i] - Digit(b, i) - IF Borrow(a, b, i) THEN 1 ELSE 0) % Base])

\* a * Base^n
ShiftDigits(a, n) == IF a = <<>> THEN <<>> ELSE [i \in 1..n |-> 0] \o a

\* a * k for a digit k: the low digits of the products, plus their high digits
\* one place up
MulDigit(a, k) ==
    IF k = 0 \/ a = <<>> THEN <<>>
    ELSE IF k = 1 THEN a
    ELSE IF Len(a) = 1 /\ a[1] * k < Base THEN <<a[1] * k>>
    ELSE NatAdd(Trim([i \in 1..Len(a) |-> (a[i] * k) % Base]),
                ShiftDigits(Trim([i \in 1..Len(a) |-> (a[i] * k) \div Base]), 1))

\* a times the digits lo..hi of b, in place
RECURSIVE MulRange(_, _, _, _)
MulRange(a, b, lo, hi) ==
    IF lo = hi THEN ShiftDigits(MulDigit(a, b[lo]), lo - 1)
    ELSE LET mid == (lo + hi) \div 2
         IN  NatAdd(MulRange(a, b, lo, mid), MulRange(a, b, mid + 1, hi))

NatMul(a, b) ==
    IF a = <<>> \/ b = <<>> THEN <<>>
    ELSE IF Len(b) = 1 THEN MulDigit(a, b[1])
    ELSE IF Len(a) = 1 THEN MulDigit(b, a[1])
    ELSE MulRange(a, b, 1, Len(b))

\* the number of bits of a digit
Bits(k) == CHOOSE n \in 0..DigitBits : Pow2(n) > k /\ (n = 0 \/ Pow2(n - 1) <= k)

\* the number of bits of a: 0 for 0, else floor(log2(a)) + 1
NatBits(a) == IF a = <<>> THEN 0 ELSE DigitBits * (Len(a) - 1) + Bits(a[Len(a)])

\* a * 2^n
NatShl(a, n) ==
    IF n = 0 THEN a ELSE ShiftDigits(MulDigit(a, Pow2(n % DigitBits)), n \div DigitBits)

\* floor(a / 2^n)
NatShr(a, n) ==
    LET k == n \div DigitBits
        r == n % DigitBits
        low == Pow2(r)
        high == Pow2(DigitBits - r)
    IN  IF n = 0 THEN a
        ELSE IF k >= Len(a) THEN <<>>
        ELSE IF Len(a) = 1 THEN (IF a[1] < low THEN <<>> ELSE <<a[1] \div low>>)
        ELSE Trim([i \in 1..(Len(a) - k) |->
                      (a[i + k] \div low) + (Digit(a, i + k + 1) % low) * high])

\* a mod 2^n
NatLow(a, n) ==
    LET k == n \div DigitBits
        r == n % DigitBits
    IN  IF k >= Len(a) THEN a
        ELSE Trim([i \in 1..(k + 1) |-> IF i <= k THEN a[i] ELSE a[i] % Pow2(r)])

\* the number of trailing zero bits of a digit # 0
ZerosOfDigit(k) == CHOOSE n \in 0..DigitBits : (k \div Pow2(n)) % 2 = 1

\* the number of trailing zero bits of a # 0
TrailingZeros(a) ==
    IF a[1] # 0 THEN ZerosOfDigit(a[1]) ELSE
    LET i == CHOOSE k \in 1..Len(a) : a[k] # 0 /\ \A j \in 1..(k - 1) : a[j] = 0
        z == ZerosOfDigit(a[i])
    IN  DigitBits * (i - 1) + z

\* the largest q with q * b <= r, for q <= guess <= q + 2
RECURSIVE FitDigit(_, _, _)
FitDigit(r, b, guess) ==
    IF NatCmp(MulDigit(b, guess), r) <= 0 THEN guess ELSE FitDigit(r, b, guess - 1)

\* one step of the long division by b, whose leading digit is at least
\* Base / 2: the next digit of the dividend joins the remainder, and the next
\* digit of the quotient is found
DivStep(b, digit, state) ==
    LET r1 == IF state.r = <<>> /\ digit = 0 THEN <<>> ELSE <<digit>> \o state.r
        n == Len(b)
        est == (Digit(r1, n + 1) * Base + Digit(r1, n)) \div b[n]
        step(d) == [q |-> <<d>> \o state.q, r |-> NatSub(r1, MulDigit(b, d))]
    IN  step(FitDigit(r1, b, IF est >= Base THEN Base - 1 ELSE est))

\* the steps for the digits hi down to lo of a: the upper half first, whose
\* remainder the lower half takes over
RECURSIVE DivRange(_, _, _, _, _)
DivRange(a, b, hi, lo, state) ==
    IF hi < lo THEN state
    ELSE IF hi = lo THEN DivStep(b, a[hi], state)
    ELSE LET mid == (lo + hi) \div 2
             upper == DivRange(a, b, hi, mid + 1, state)
         IN  IF Len(upper.q) > 0 THEN DivRange(a, b, mid, lo, upper) ELSE upper

\* the steps of the division by a single digit k for the digits hi down to lo
\* of a; the remainder is a machine-size number
RECURSIVE ShortRange(_, _, _, _, _)
ShortRange(a, k, hi, lo, state) ==
    IF hi < lo THEN state
    ELSE IF hi = lo
    THEN LET cur == state.r * Base + a[hi]
         IN  [q |-> <<cur \div k>> \o state.q, r |-> cur % k]
    ELSE LET mid == (lo + hi) \div 2
             upper == ShortRange(a, k, hi, mid + 1, state)
         IN  IF Len(upper.q) > 0 THEN ShortRange(a, k, mid, lo, upper) ELSE upper

\* quotient and remainder of a by b # 0: the leading digits of the dividend,
\* one fewer than the divisor has, are the first remainder
NatDivMod(a, b) ==
    IF Len(b) = 1
    THEN LET d == ShortRange(a, b[1], Len(a), 1, [q |-> <<>>, r |-> 0])
         IN  [q |-> Trim(d.q), r |-> IF d.r = 0 THEN <<>> ELSE <<d.r>>]
    ELSE
    LET s == DigitBits - Bits(b[Len(b)])
        long(u, v, top) ==
            IF top < 1 THEN [q |-> <<>>, r |-> u]
            ELSE DivRange(u, v, top, 1, [q |-> <<>>, r |-> SubSeq(u, top + 1, Len(u))])
        scaled(u, v) == long(u, v, Len(u) - Len(v) + 1)
        result(d) == [q |-> Trim(d.q), r |-> NatShr(d.r, s)]
    IN  result(scaled(NatShl(a, s), NatShl(b, s)))

\* 10^k, by squaring
RECURSIVE NatPow10(_)
NatPow10(k) ==
    IF k = 0 THEN <<1>>
    ELSE LET square(h) == MulDigit(NatMul(h, h), IF k % 2 = 1 THEN 10 ELSE 1)
         IN  square(NatPow10(k \div 2))

-----------------------------------------------------------------------------
(* Python's int: a sign and a magnitude of any size.                       *)

IntOf(k) == [neg |-> k < 0, mag |-> NatOf(Abs(k))]

IntZero == IntOf(0)

SignedNat(neg, mag) == [neg |-> neg /\ mag # <<>>, mag |-> mag]

IntNeg(a) == SignedNat(~a.neg, a.mag)

IntAdd(a, b) ==
    IF a.neg = b.neg THEN SignedNat(a.neg, NatAdd(a.mag, b.mag))
    ELSE IF NatCmp(a.mag, b.mag) >= 0 THEN SignedNat(a.neg, NatSub(a.mag, b.mag))
    ELSE SignedNat(b.neg, NatSub(b.mag, a.mag))

IntLe(a, b) ==
    IF a.neg # b.neg THEN a.neg
    ELSE IF a.neg THEN NatCmp(a.mag, b.mag) >= 0
    ELSE NatCmp(a.mag, b.mag) <= 0

IntLt(a, b) == IntLe(a, b) /\ a # b

-----------------------------------------------------------------------------
(* Python's float: the IEEE 754 double.  A finite float is                 *)
(* (-1)^neg * mant * 2^exp with mant odd, or mant = 0 and exp = 0; every   *)
(* operation rounds its exact result to the nearest double, ties to even.  *)

MantBits == 53
MinExp == -1074
MaxBits == 1024

Float(cls, neg, mant, exp) == [cls |-> cls, neg |-> neg, mant |-> mant, exp |-> exp]

PosInf == Float("inf", FALSE, <<>>, 0)
NegInf == Float("inf", TRUE, <<>>, 0)
NaN == Float("nan", FALSE, <<>>, 0)
Zero == Float("fin", FALSE, <<>>, 0)
NegZero == Float("fin", TRUE, <<>>, 0)

Inf(neg) == IF neg THEN NegInf ELSE PosInf
SignedZero(neg) == IF neg THEN NegZero ELSE Zero

IsNaN(a) == a.cls = "nan"
IsInf(a) == a.cls = "inf"
IsFinite(a) == a.cls = "fin"
IsZero(a) == a.cls = "fin" /\ a.mant = <<>>

\* the double (-1)^neg * n * 2^e of a natural number n of at most 53 bits
Dyadic(neg, n, e) ==
    IF n = <<>> THEN SignedZero(neg)
    ELSE LET odd(z) == Float("fin", neg, NatShr(n, z), e + z)
         IN  IF NatBits(n) + e > MaxBits THEN Inf(neg) ELSE odd(TrailingZeros(n))

\* the double nearest (-1)^neg * (n + f) * 2^e, where 0 < f < 1 when sticky
\* and f = 0 otherwise (sticky only with more than 53 bits in n)
Round(neg, n, e, sticky) ==
    LET over == NatBits(n) - MantBits
        drop == IF MinExp - e > over THEN MinExp - e ELSE over
        \* kept: the bits that stay; c: the dropped bits against one half
        nearest(kept, c) ==
            IF c > 0 \/ (c = 0 /\ (sticky \/ Digit(kept, 1) % 2 = 1))
            THEN NatAdd(kept, <<1>>) ELSE kept
    IN  IF drop <= 0 THEN Dyadic(neg, n, e)
        ELSE Dyadic(neg, nearest(NatShr(n, drop),
                                 NatCmp(NatLow(n, drop), NatShl(<<1>>, drop - 1))),
                    e + drop)

\* the double nearest (-1)^neg * (n / d) * 2^e, for d # 0
RoundRatio(neg, n, d, e) ==
    IF n = <<>> THEN SignedZero(neg)
    ELSE LET short == MantBits + 2 + NatBits(d) - NatBits(n)
             k == IF short > 0 THEN short ELSE 0
             rounded(qr) == Round(neg, qr.q, e - k, qr.r # <<>>)
         IN  rounded(NatDivMod(NatShl(n, k), d))

\* float(k) of a machine-size whole number
FloatOf(k) == Dyadic(k < 0, NatOf(Abs(k)), 0)

\* the float nearest n/d, for d # 0
Fin(n, d) ==
    IF d = 1 THEN FloatOf(n)
    ELSE RoundRatio((n < 0) # (d < 0), NatOf(Abs(n)), NatOf(Abs(d)), 0)

FNeg(a) == IF IsNaN(a) THEN a ELSE [a EXCEPT !.neg = ~a.neg]
FAbs(a) == [a EXCEPT !.neg = FALSE]

\* -1, 0 or 1 as |a| < |b|, |a| = |b| or |a| > |b|, for finite a and b
MagCmp(a, b) ==
    IF a.mant = <<>> \/ b.mant = <<>>
    THEN (IF a.mant = b.mant THEN 0 ELSE IF a.mant = <<>> THEN -1 ELSE 1)
    ELSE IF a.mant = b.mant /\ a.exp = b.exp THEN 0
    ELSE LET ta == NatBits(a.mant) + a.exp
             tb == NatBits(b.mant) + b.exp
             e == IF a.exp < b.exp THEN a.exp ELSE b.exp
         IN  IF ta # tb THEN (IF ta < tb THEN -1 ELSE 1)
             ELSE NatCmp(NatShl(a.mant, a.exp - e), NatShl(b.mant, b.exp - e))

FAdd(a, b) ==
    IF IsNaN(a) \/ IsNaN(b) THEN NaN
    ELSE IF IsInf(a) THEN (IF IsInf(b) /\ b.neg # a.neg THEN NaN ELSE a)
    ELSE IF IsInf(b) THEN b
    ELSE IF IsZero(a) /\ IsZero(b) THEN SignedZero(a.neg /\ b.neg)
    ELSE IF IsZero(a) THEN b
    ELSE IF IsZero(b) THEN a
    ELSE LET e == IF a.exp < b.exp THEN a.exp ELSE b.exp
             \* x and y: the magnitudes in units of 2^e; c: x against y
             signed(x, y, c) ==
                 IF a.neg # b.neg /\ c = 0 THEN Zero
                 ELSE Round(IF c >= 0 THEN a.neg ELSE b.neg,
                            IF a.neg = b.neg THEN NatAdd(x, y)
                            ELSE IF c > 0 THEN NatSub(x, y) ELSE NatSub(y, x),
                            e, FALSE)
             aligned(x, y) == signed(x, y, NatCmp(x, y))
         IN  aligned(NatShl(a.mant, a.exp - e), NatShl(b.mant, b.exp - e))

FSub(a, b) == FAdd(a, FNeg(b))

FMul(a, b) ==
    IF IsNaN(a) \/ IsNaN(b) THEN NaN
    ELSE IF IsInf(a) \/ IsInf(b)
         THEN (IF IsZero(a) \/ IsZero(b) THEN NaN ELSE Inf(a.neg # b.neg))
    ELSE Round(a.neg # b.neg, NatMul(a.mant, b.mant), a.exp + b.exp, FALSE)

\* a / b for b # 0 (a zero divisor raises ZeroDivisionError in Python)
FDiv(a, b) ==
    IF IsNaN(a) \/ IsNaN(b) THEN NaN
    ELSE IF IsInf(a) THEN (IF IsInf(b) THEN NaN ELSE Inf(a.neg # b.neg))
    ELSE IF IsInf(b) THEN SignedZero(a.neg # b.neg)
    ELSE RoundRatio(a.neg # b.neg, a.mant, b.mant, a.exp - b.exp)

\* a == b: neither is nan, and the values are equal (0.0 == -0.0)
FEq(a, b) == ~IsNaN(a) /\ ~IsNaN(b) /\ (a = b \/ (IsZero(a) /\ IsZero(b)))

FLe(a, b) ==
    IF IsNaN(a) \/ IsNaN(b) THEN FALSE
    ELSE IF IsInf(a) THEN a.neg \/ (IsInf(b) /\ ~b.neg)
    ELSE IF IsInf(b) THEN ~b.neg
    ELSE IF IsZero(a) /\ IsZero(b) THEN TRUE
    ELSE IF a.neg # b.neg THEN a.neg
    ELSE MagCmp(IF a.neg THEN b ELSE a, IF a.neg THEN a ELSE b) <= 0

FGt(a, b) == ~IsNaN(a) /\ ~IsNaN(b) /\ ~FLe(a, b)

FGe(a, b) == FLe(b, a)

FLt(a, b) == FGt(b, a)

\* int(x) of a finite float: truncation toward zero
Trunc(a) ==
    SignedNat(a.neg, IF a.exp >= 0 THEN NatShl(a.mant, a.exp)
                     ELSE NatShr(a.mant, -a.exp))

-----------------------------------------------------------------------------
(* Variance classifier.                                                    *)

WithinNorms == "Within Norms"
Excess == "Excess Inventory"
Short == "Short Inventory"
Statuses == {WithinNorms, Excess, Short}

\* calculate_variance without the scaling to a percentage
calculate_variance_unscaled(q, r) ==
    IF FEq(r, Zero)
    THEN [percent |-> Zero, value |-> Zero]
    ELSE [percent |-> FDiv(FSub(q, r), r), value |-> FSub(q, r)]

\* calculate_variance reporting a zero norm as a surplus of the whole quantity
calculate_variance_surplus(q, r) ==
    IF FEq(r, Zero)
    THEN [percent |-> FMul(q, FloatOf(100)), value |-> Zero]
    ELSE [percent |-> FMul(FDiv(FSub(q, r), r), FloatOf(100)),
          value |-> FSub(q, r)]

\* calculate_variance reporting the deficit rm - qty as the variance value
calculate_variance_deficit(q, r) ==
    IF FEq(r, Zero)
    THEN [percent |-> Zero, value |-> Zero]
    ELSE [percent |-> FMul(FDiv(FSub(q, r), r), FloatOf(100)),
          value |-> FSub(r, q)]

calculate_variance(q, r) ==
    IF FEq(r, Zero)
    THEN [percent |-> Zero, value |-> Zero]
    ELSE [percent |-> FMul(FDiv(FSub(q, r), r), FloatOf(100)),
          value |-> FSub(q, r)]

\* determine_status with a strict comparison in the first test
determine_status_strict(p, t) ==
    IF FLt(FAbs(p), t) THEN WithinNorms
    ELSE IF FGt(p, t) THEN Excess
    ELSE Short

\* determine_status with the first comparison inverted
determine_status_outside(p, t) ==
    IF FGe(FAbs(p), t) THEN WithinNorms
    ELSE IF FGt(p, t) THEN Excess
    ELSE Short

determine_status(p, t) ==
    IF FLe(FAbs(p), t) THEN WithinNorms
    ELSE IF FGt(p, t) THEN Excess
    ELSE Short

empty_summary ==
    [s \in Statuses |-> [count |-> 0, value |-> IntZero]]

\* process_item classifying the absolute variance instead of the percentage
process_item_by_value(item, t) ==
    LET processed_item(v) ==
            [Material |-> item.Material,
             Description |-> item.Description,
             QTY |-> item.QTY,
             RM_IN_QTY |-> item.RM_IN_QTY,
             Variance_pct |-> v.percent,
             Variance_Value |-> v.value,
             Status |-> determine_status(v.value, FloatOf(t)),
             Stock_Value |-> item.Stock_Value,
             Vendor |-> item.Vendor]
    IN  processed_item(calculate_variance(item.QTY, item.RM_IN_QTY))

process_item(item, t) ==
    LET processed_item(v) ==
            [Material |-> item.Material,
             Description |-> item.Description,
             QTY |-> item.QTY,
             RM_IN_QTY |-> item.RM_IN_QTY,
             Variance_pct |-> v.percent,
             Variance_Value |-> v.value,
             Status |-> determine_status(v.percent, FloatOf(t)),
             Stock_Value |-> item.Stock_Value,
             Vendor |-> item.Vendor]
    IN  processed_item(calculate_variance(item.QTY, item.RM_IN_QTY))

\* update_summary counting every item twice
update_summary_miscount(summary, st, stock_value) ==
    [summary EXCEPT ![st] = [count |-> @.count + 2,
                             value |-> IntAdd(@.value, stock_value)]]

update_summary(summary, st, stock_value) ==
    [summary EXCEPT ![st] = [count |-> @.count + 1,
                             value |-> IntAdd(@.value, stock_value)]]

\* process_loop inserting each processed item at the front of the list
RECURSIVE process_loop_prepend(_, _, _, _, _)
process_loop_prepend(data, t, i, processed, summary) ==
    IF i > Len(data) THEN [processed_data |-> processed, summary_data |-> summary]
    ELSE LET next(p) ==
                 process_loop_prepend(data, t, i + 1, <<p>> \o processed,
                                      update_summary(summary, p.Status, p.Stock_Value))
         IN  next(process_item(data[i], t))

\* the loop of process_data from item i on, with the results accumulated so far
RECURSIVE process_loop(_, _, _, _, _)
process_loop(data, t, i, processed, summary) ==
    IF i > Len(data) THEN [processed_data |-> processed, summary_data |-> summary]
    ELSE LET next(p) ==
                 process_loop(data, t, i + 1, Append(processed, p),
                              update_summary(summary, p.Status, p.Stock_Value))
         IN  next(process_item(data[i], t))

process_data(data, t) == process_loop(data, t, 1, <<>>, empty_summary)

-----------------------------------------------------------------------------
(* Vendor aggregator.  A Python dict is a record of its keys in insertion  *)
(* order and the mapping from keys to values.                              *)

empty_dict == [keys |-> <<>>, vals |-> <<>>]

InDict(dict, key) == \E i \in 1..Len(dict.keys) : dict.keys[i] = key

Index(dict, key) == CHOOSE i \in 1..Len(dict.keys) : dict.keys[i] = key

Get(dict, key) == dict.vals[Index(dict, key)]

\* Put placing a new key in front of the existing ones
Put_front(dict, key, val) ==
    IF InDict(dict, key)
    THEN [dict EXCEPT !.vals[Index(dict, key)] = val]
    ELSE [keys |-> <<key>> \o dict.keys, vals |-> <<val>> \o dict.vals]

Put(dict, key, val) ==
    IF InDict(dict, key)
    THEN [dict EXCEPT !.vals[Index(dict, key)] = val]
    ELSE [keys |-> Append(dict.keys, key), vals |-> Append(dict.vals, val)]

new_vendor ==
    [total_parts |-> 0, total_qty |-> Zero, total_rm |-> Zero, total_value |-> IntZero,
     short_parts |-> 0, excess_parts |-> 0, normal_parts |-> 0,
     short_value |-> IntZero, excess_value |-> IntZero, normal_value |-> IntZero]

\* add_item without the count of the parts within norms
add_item_no_normal(acc, item) ==
    LET base == [acc EXCEPT !.total_parts = @ + 1,
                            !.total_qty = FAdd(@, item.QTY),
                            !.total_rm = FAdd(@, item.RM_IN_QTY),
                            !.total_value = IntAdd(@, item.Stock_Value)]
    IN  IF item.Status = Short
        THEN [base EXCEPT !.short_parts = @ + 1,
                          !.short_value = IntAdd(@, item.Stock_Value)]
        ELSE IF item.Status = Excess
        THEN [base EXCEPT !.excess_parts = @ + 1,
                          !.excess_value = IntAdd(@, item.Stock_Value)]
        ELSE [base EXCEPT !.normal_value = IntAdd(@, item.Stock_Value)]

\* add_item booking the short parts as excess parts
add_item_short_as_excess(acc, item) ==
    LET base == [acc EXCEPT !.total_parts = @ + 1,
                            !.total_qty = FAdd(@, item.QTY),
                            !.total_rm = FAdd(@, item.RM_IN_QTY),
                            !.total_value = IntAdd(@, item.Stock_Value)]
    IN  IF item.Status \in {Short, Excess}
        THEN [base EXCEPT !.excess_parts = @ + 1,
                          !.excess_value = IntAdd(@, item.Stock_Value)]
        ELSE [base EXCEPT !.normal_parts = @ + 1,
                          !.normal_value = IntAdd(@, item.Stock_Value)]

add_item(acc, item) ==
    LET base == [acc EXCEPT !.total_parts = @ + 1,
                            !.total_qty = FAdd(@, item.QTY),
                            !.total_rm = FAdd(@, item.RM_IN_QTY),
                            !.total_value = IntAdd(@, item.Stock_Value)]
    IN  IF item.Status = Short
        THEN [base EXCEPT !.short_parts = @ + 1,
                          !.short_value = IntAdd(@, item.Stock_Value)]
        ELSE IF item.Status = Excess
        THEN [base EXCEPT !.excess_parts = @ + 1,
                          !.excess_value = IntAdd(@, item.Stock_Value)]
        ELSE [base EXCEPT !.normal_parts = @ + 1,
                          !.normal_value = IntAdd(@, item.Stock_Value)]

\* vendor_loop starting a fresh accumulator at every item
RECURSIVE vendor_loop_reset(_, _, _)
vendor_loop_reset(processed, i, summary) ==
    IF i > Len(processed) THEN summary
    ELSE LET item == processed[i]
             vendor == item.Vendor
             s1 == Put(summary, vendor, new_vendor)
         IN  vendor_loop_reset(processed, i + 1,
                               Put(s1, vendor, add_item(Get(s1, vendor), item)))

RECURSIVE vendor_loop(_, _, _)
vendor_loop(processed, i, summary) ==
    IF i > Len(processed) THEN summary
    ELSE LET item == processed[i]
             vendor == item.Vendor
             s1 == IF InDict(summary, vendor) THEN summary
                   ELSE Put(summary, vendor, new_vendor)
         IN  vendor_loop(processed, i + 1,
                         Put(s1, vendor, add_item(Get(s1, vendor), item)))

get_vendor_summary(processed) == vendor_loop(processed, 1, empty_dict)

-----------------------------------------------------------------------------
(* Characters and strings.  A character is its Unicode code point and a    *)
(* Python str is the sequence of the code points of its characters:        *)
(* 'qty' is <<113, 116, 121>>, written Str("qty").                         *)

\* the printable ASCII characters from the space (32) to '_' (95), and from
\* 'a' (97) to '~' (126)
AsciiLow == " !\"#$%&'()*+,-./0123456789:;<=>?@ABCDEFGHIJKLMNOPQRSTUVWXYZ[\\]^_"
AsciiHigh == "abcdefghijklmnopqrstuvwxyz{|}~"

Ord ==
    [c \in {SubSeq(AsciiLow, k, k) : k \in 1..Len(AsciiLow)} |->
        31 + CHOOSE k \in 1..Len(AsciiLow) : SubSeq(AsciiLow, k, k) = c]
    @@ [c \in {SubSeq(AsciiHigh, k, k) : k \in 1..Len(AsciiHigh)} |->
        96 + CHOOSE k \in 1..Len(AsciiHigh) : SubSeq(AsciiHigh, k, k) = c]

\* ord(c) of a printable ASCII character
ord(c) == Ord[c]

\* the str of a literal of printable ASCII characters
Str(s) == [i \in 1..Len(s) |-> ord(SubSeq(s, i, i))]

\* the zeros of the decimal digits (Unicode 14.0.0, category Nd): the digits 1 to 9
\* of a script follow its zero
DigitZeros ==
    {48, 1632, 1776, 1984, 2406, 2534, 2662, 2790, 2918, 3046, 3174, 3302, 3430, 3558, 3664,
     3792, 3872, 4160, 4240, 6112, 6160, 6470, 6608, 6784, 6800, 6992, 7088, 7232, 7248, 42528,
     43216, 43264, 43472, 43504, 43600, 44016, 65296, 66720, 68912, 69734, 69872, 69942, 70096,
     70384, 70736, 70864, 71248, 71360, 71472, 71904, 72016, 72784, 73040, 73120, 92768, 92864,
     93008, 120782, 120792, 120802, 120812, 120822, 123200, 123632, 125264, 130032}

\* the characters str.lower() changes, other than U+0130, in runs
\* <<first, last, step, delta>>: every step-th character from first to last
\* becomes the character delta further on
LowerRuns ==
    {<<65, 90, 1, 32>>, <<192, 214, 1, 32>>, <<216, 222, 1, 32>>, <<256, 302, 2, 1>>,
     <<306, 310, 2, 1>>, <<313, 327, 2, 1>>, <<330, 374, 2, 1>>, <<376, 376, 1, -121>>,
     <<377, 381, 2, 1>>, <<385, 385, 1, 210>>, <<386, 388, 2, 1>>, <<390, 390, 1, 206>>,
     <<391, 391, 1, 1>>, <<393, 394, 1, 205>>, <<395, 395, 1, 1>>, <<398, 398, 1, 79>>,
     <<399, 399, 1, 202>>, <<400, 400, 1, 203>>, <<401, 401, 1, 1>>, <<403, 403, 1, 205>>,
     <<404, 404, 1, 207>>, <<406, 406, 1, 211>>, <<407, 407, 1, 209>>, <<408, 408, 1, 1>>,
     <<412, 412, 1, 211>>, <<413, 413, 1, 213>>, <<415, 415, 1, 214>>, <<416, 420, 2, 1>>,
     <<422, 422, 1, 218>>, <<423, 423, 1, 1>>, <<425, 425, 1, 218>>, <<428, 428, 1, 1>>,
     <<430, 430, 1, 218>>, <<431, 431, 1, 1>>, <<433, 434, 1, 217>>, <<435, 437, 2, 1>>,
     <<439, 439, 1, 219>>, <<440, 440, 1, 1>>, <<444, 444, 1, 1>>, <<452, 452, 1, 2>>,
     <<453, 453, 1, 1>>, <<455, 455, 1, 2>>, <<456, 456, 1, 1>>, <<458, 458, 1, 2>>,
     <<459, 475, 2, 1>>, <<478, 494, 2, 1>>, <<497, 497, 1, 2>>, <<498, 500, 2, 1>>,
     <<502, 502, 1, -97>>, <<503, 503, 1, -56>>, <<504, 542, 2, 1>>, <<544, 544, 1, -130>>,
     <<546, 562, 2, 1>>, <<570, 570, 1, 10795>>, <<571, 571, 1, 1>>, <<573, 573, 1, -163>>,
     <<574, 574, 1, 10792>>, <<577, 577, 1, 1>>, <<579, 579, 1, -195>>, <<580, 580, 1, 69>>,
     <<581, 581, 1, 71>>, <<582, 590, 2, 1>>, <<880, 882, 2, 1>>, <<886, 886, 1, 1>>,
     <<895, 895, 1, 116>>, <<902, 902, 1, 38>>, <<904, 906, 1, 37>>, <<908, 908, 1, 64>>,
     <<910, 911, 1, 63>>, <<913, 929, 1, 32>>, <<931, 939, 1, 32>>, <<975, 975, 1, 8>>,
     <<984, 1006, 2, 1>>, <<1012, 1012, 1, -60>>, <<1015, 1015, 1, 1>>, <<1017, 1017, 1, -7>>,
     <<1018, 1018, 1, 1>>, <<1021, 1023, 1, -130>>, <<1024, 1039, 1, 80>>,
     <<1040, 1071, 1, 32>>, <<1120, 1152, 2, 1>>, <<1162, 1214, 2, 1>>, <<1216, 1216, 1, 15>>,
     <<1217, 1229, 2, 1>>, <<1232, 1326, 2, 1>>, <<1329, 1366, 1, 48>>, <<4256, 4293, 1, 7264>>,
     <<4295, 4295, 1, 7264>>, <<4301, 4301, 1, 7264>>, <<5024, 5103, 1, 38864>>,
     <<5104, 5109, 1, 8>>, <<7312, 7354, 1, -3008>>, <<7357, 7359, 1, -3008>>,
     <<7680, 7828, 2, 1>>, <<7838, 7838, 1, -7615>>, <<7840, 7934, 2, 1>>,
     <<7944, 7951, 1, -8>>, <<7960, 7965, 1, -8>>, <<7976, 7983, 1, -8>>, <<7992, 7999, 1, -8>>,
     <<8008, 8013, 1, -8>>, <<8025, 8031, 2, -8>>, <<8040, 8047, 1, -8>>, <<8072, 8079, 1, -8>>,
     <<8088, 8095, 1, -8>>, <<8104, 8111, 1, -8>>, <<8120, 8121, 1, -8>>,
     <<8122, 8123, 1, -74>>, <<8124, 8124, 1, -9>>, <<8136, 8139, 1, -86>>,
     <<8140, 8140, 1, -9>>, <<8152, 8153, 1, -8>>, <<8154, 8155, 1, -100>>,
     <<8168, 8169, 1, -8>>, <<8170, 8171, 1, -112>>, <<8172, 8172, 1, -7>>,
     <<8184, 8185, 1, -128>>, <<8186, 8187, 1, -126>>, <<8188, 8188, 1, -9>>,
     <<8486, 8486, 1, -7517>>, <<8490, 8490, 1, -8383>>, <<8491, 8491, 1, -8262>>,
     <<8498, 8498, 1, 28>>, <<8544, 8559, 1, 16>>, <<8579, 8579, 1, 1>>, <<9398, 9423, 1, 26>>,
     <<11264, 11311, 1, 48>>, <<11360, 11360, 1, 1>>, <<11362, 11362, 1, -10743>>,
     <<11363, 11363, 1, -3814>>, <<11364, 11364, 1, -10727>>, <<11367, 11371, 2, 1>>,
     <<11373, 11373, 1, -10780>>, <<11374, 11374, 1, -10749>>, <<11375, 11375, 1, -10783>>,
     <<11376, 11376, 1, -10782>>, <<11378, 11378, 1, 1>>, <<11381, 11381, 1, 1>>,
     <<11390, 11391, 1, -10815>>, <<11392, 11490, 2, 1>>, <<11499, 11501, 2, 1>>,
     <<11506, 11506, 1, 1>>, <<42560, 42604, 2, 1>>, <<42624, 42650, 2, 1>>,
     <<42786, 42798, 2, 1>>, <<42802, 42862, 2, 1>>, <<42873, 42875, 2, 1>>,
     <<42877, 42877, 1, -35332>>, <<42878, 42886, 2, 1>>, <<42891, 42891, 1, 1>>,
     <<42893, 42893, 1, -42280>>, <<42896, 42898, 2, 1>>, <<42902, 42920, 2, 1>>,
     <<42922, 42922, 1, -42308>>, <<42923, 42923, 1, -42319>>, <<42924, 42924, 1, -42315>>,
     <<42925, 42925, 1, -42305>>, <<42926, 42926, 1, -42308>>, <<42928, 42928, 1, -42258>>,
     <<42929, 42929, 1, -42282>>, <<42930, 42930, 1, -42261>>, <<42931, 42931, 1, 928>>,
     <<42932, 42946, 2, 1>>, <<42948, 42948, 1, -48>>, <<42949, 42949, 1, -42307>>,
     <<42950, 42950, 1, -35384>>, <<42951, 42953, 2, 1>>, <<42960, 42960, 1, 1>>,
     <<42966, 42968, 2, 1>>, <<42997, 42997, 1, 1>>, <<65313, 65338, 1, 32>>,
     <<66560, 66599, 1, 40>>, <<66736, 66771, 1, 40>>, <<66928, 66938, 1, 39>>,
     <<66940, 66954, 1, 39>>, <<66956, 66962, 1, 39>>, <<66964, 66965, 1, 39>>,
     <<68736, 68786, 1, 64>>, <<71840, 71871, 1, 32>>, <<93760, 93791, 1, 32>>,
     <<125184, 125217, 1, 34>>}

\* the cased characters (properties Lowercase and Uppercase, category Lt), in
\* ranges <<first, last>>
CasedRanges ==
    {<<65, 90>>, <<97, 122>>, <<170, 170>>, <<181, 181>>, <<186, 186>>, <<192, 214>>,
     <<216, 246>>, <<248, 442>>, <<444, 447>>, <<452, 659>>, <<661, 696>>, <<704, 705>>,
     <<736, 740>>, <<837, 837>>, <<880, 883>>, <<886, 887>>, <<890, 893>>, <<895, 895>>,
     <<902, 902>>, <<904, 906>>, <<908, 908>>, <<910, 929>>, <<931, 1013>>, <<1015, 1153>>,
     <<1162, 1327>>, <<1329, 1366>>, <<1376, 1416>>, <<4256, 4293>>, <<4295, 4295>>,
     <<4301, 4301>>, <<4304, 4346>>, <<4349, 4351>>, <<5024, 5109>>, <<5112, 5117>>,
     <<7296, 7304>>, <<7312, 7354>>, <<7357, 7359>>, <<7424, 7615>>, <<7680, 7957>>,
     <<7960, 7965>>, <<7968, 8005>>, <<8008, 8013>>, <<8016, 8023>>, <<8025, 8025>>,
     <<8027, 8027>>, <<8029, 8029>>, <<8031, 8061>>, <<8064, 8116>>, <<8118, 8124>>,
     <<8126, 8126>>, <<8130, 8132>>, <<8134, 8140>>, <<8144, 8147>>, <<8150, 8155>>,
     <<8160, 8172>>, <<8178, 8180>>, <<8182, 8188>>, <<8305, 8305>>, <<8319, 8319>>,
     <<8336, 8348>>, <<8450, 8450>>, <<8455, 8455>>, <<8458, 8467>>, <<8469, 8469>>,
     <<8473, 8477>>, <<8484, 8484>>, <<8486, 8486>>, <<8488, 8488>>, <<8490, 8493>>,
     <<8495, 8500>>, <<8505, 8505>>, <<8508, 8511>>, <<8517, 8521>>, <<8526, 8526>>,
     <<8544, 8575>>, <<8579, 8580>>, <<9398, 9449>>, <<11264, 11492>>, <<11499, 11502>>,
     <<11506, 11507>>, <<11520, 11557>>, <<11559, 11559>>, <<11565, 11565>>, <<42560, 42605>>,
     <<42624, 42653>>, <<42786, 42887>>, <<42891, 42894>>, <<42896, 42954>>, <<42960, 42961>>,
     <<42963, 42963>>, <<42965, 42969>>, <<42997, 42998>>, <<43000, 43002>>, <<43824, 43866>>,
     <<43868, 43880>>, <<43888, 43967>>, <<64256, 64262>>, <<64275, 64279>>, <<65313, 65338>>,
     <<65345, 65370>>, <<66560, 66639>>, <<66736, 66771>>, <<66776, 66811>>, <<66928, 66938>>,
     <<66940, 66954>>, <<66956, 66962>>, <<66964, 66965>>, <<66967, 66977>>, <<66979, 66993>>,
     <<66995, 67001>>, <<67003, 67004>>, <<67456, 67456>>, <<67459, 67461>>, <<67463, 67504>>,
     <<67506, 67514>>, <<68736, 68786>>, <<68800, 68850>>, <<71840, 71903>>, <<93760, 93823>>,
     <<119808, 119892>>, <<119894, 119964>>, <<119966, 119967>>, <<119970, 119970>>,
     <<119973, 119974>>, <<119977, 119980>>, <<119982, 119993>>, <<119995, 119995>>,
     <<119997, 120003>>, <<120005, 120069>>, <<120071, 120074>>, <<120077, 120084>>,
     <<120086, 120092>>, <<120094, 120121>>, <<120123, 120126>>, <<120128, 120132>>,
     <<120134, 120134>>, <<120138, 120144>>, <<120146, 120485>>, <<120488, 120512>>,
     <<120514, 120538>>, <<120540, 120570>>, <<120572, 120596>>, <<120598, 120628>>,
     <<120630, 120654>>, <<120656, 120686>>, <<120688, 120712>>, <<120714, 120744>>,
     <<120746, 120770>>, <<120772, 120779>>, <<122624, 122633>>, <<122635, 122654>>,
     <<125184, 125251>>, <<127280, 127305>>, <<127312, 127337>>, <<127344, 127369>>}

\* the case-ignorable characters, in ranges <<first, last>>
CaseIgnorableRanges ==
    {<<39, 39>>, <<46, 46>>, <<58, 58>>, <<94, 94>>, <<96, 96>>, <<168, 168>>, <<173, 173>>,
     <<175, 175>>, <<180, 180>>, <<183, 184>>, <<688, 879>>, <<884, 885>>, <<890, 890>>,
     <<900, 901>>, <<903, 903>>, <<1155, 1161>>, <<1369, 1369>>, <<1375, 1375>>, <<1425, 1469>>,
     <<1471, 1471>>, <<1473, 1474>>, <<1476, 1477>>, <<1479, 1479>>, <<1524, 1524>>,
     <<1536, 1541>>, <<1552, 1562>>, <<1564, 1564>>, <<1600, 1600>>, <<1611, 1631>>,
     <<1648, 1648>>, <<1750, 1757>>, <<1759, 1768>>, <<1770, 1773>>, <<1807, 1807>>,
     <<1809, 1809>>, <<1840, 1866>>, <<1958, 1968>>, <<2027, 2037>>, <<2042, 2042>>,
     <<2045, 2045>>, <<2070, 2093>>, <<2137, 2139>>, <<2184, 2184>>, <<2192, 2193>>,
     <<2200, 2207>>, <<2249, 2306>>, <<2362, 2362>>, <<2364, 2364>>, <<2369, 2376>>,
     <<2381, 2381>>, <<2385, 2391>>, <<2402, 2403>>, <<2417, 2417>>, <<2433, 2433>>,
     <<2492, 2492>>, <<2497, 2500>>, <<2509, 2509>>, <<2530, 2531>>, <<2558, 2558>>,
     <<2561, 2562>>, <<2620, 2620>>, <<2625, 2626>>, <<2631, 2632>>, <<2635, 2637>>,
     <<2641, 2641>>, <<2672, 2673>>, <<2677, 2677>>, <<2689, 2690>>, <<2748, 2748>>,
     <<2753, 2757>>, <<2759, 2760>>, <<2765, 2765>>, <<2786, 2787>>, <<2810, 2815>>,
     <<2817, 2817>>, <<2876, 2876>>, <<2879, 2879>>, <<2881, 2884>>, <<2893, 2893>>,
     <<2901, 2902>>, <<2914, 2915>>, <<2946, 2946>>, <<3008, 3008>>, <<3021, 3021>>,
     <<3072, 3072>>, <<3076, 3076>>, <<3132, 3132>>, <<3134, 3136>>, <<3142, 3144>>,
     <<3146, 3149>>, <<3157, 3158>>, <<3170, 3171>>, <<3201, 3201>>, <<3260, 3260>>,
     <<3263, 3263>>, <<3270, 3270>>, <<3276, 3277>>, <<3298, 3299>>, <<3328, 3329>>,
     <<3387, 3388>>, <<3393, 3396>>, <<3405, 3405>>, <<3426, 3427>>, <<3457, 3457>>,
     <<3530, 3530>>, <<3538, 3540>>, <<3542, 3542>>, <<3633, 3633>>, <<3636, 3642>>,
     <<3654, 3662>>, <<3761, 3761>>, <<3764, 3772>>, <<3782, 3782>>, <<3784, 3789>>,
     <<3864, 3865>>, <<3893, 3893>>, <<3895, 3895>>, <<3897, 3897>>, <<3953, 3966>>,
     <<3968, 3972>>, <<3974, 3975>>, <<3981, 3991>>, <<3993, 4028>>, <<4038, 4038>>,
     <<4141, 4144>>, <<4146, 4151>>, <<4153, 4154>>, <<4157, 4158>>, <<4184, 4185>>,
     <<4190, 4192>>, <<4209, 4212>>, <<4226, 4226>>, <<4229, 4230>>, <<4237, 4237>>,
     <<4253, 4253>>, <<4348, 4348>>, <<4957, 4959>>, <<5906, 5908>>, <<5938, 5939>>,
     <<5970, 5971>>, <<6002, 6003>>, <<6068, 6069>>, <<6071, 6077>>, <<6086, 6086>>,
     <<6089, 6099>>, <<6103, 6103>>, <<6109, 6109>>, <<6155, 6159>>, <<6211, 6211>>,
     <<6277, 6278>>, <<6313, 6313>>, <<6432, 6434>>, <<6439, 6440>>, <<6450, 6450>>,
     <<6457, 6459>>, <<6679, 6680>>, <<6683, 6683>>, <<6742, 6742>>, <<6744, 6750>>,
     <<6752, 6752>>, <<6754, 6754>>, <<6757, 6764>>, <<6771, 6780>>, <<6783, 6783>>,
     <<6823, 6823>>, <<6832, 6862>>, <<6912, 6915>>, <<6964, 6964>>, <<6966, 6970>>,
     <<6972, 6972>>, <<6978, 6978>>, <<7019, 7027>>, <<7040, 7041>>, <<7074, 7077>>,
     <<7080, 7081>>, <<7083, 7085>>, <<7142, 7142>>, <<7144, 7145>>, <<7149, 7149>>,
     <<7151, 7153>>, <<7212, 7219>>, <<7222, 7223>>, <<7288, 7293>>, <<7376, 7378>>,
     <<7380, 7392>>, <<7394, 7400>>, <<7405, 7405>>, <<7412, 7412>>, <<7416, 7417>>,
     <<7468, 7530>>, <<7544, 7544>>, <<7579, 7679>>, <<8125, 8125>>, <<8127, 8129>>,
     <<8141, 8143>>, <<8157, 8159>>, <<8173, 8175>>, <<8189, 8190>>, <<8203, 8207>>,
     <<8216, 8217>>, <<8228, 8228>>, <<8231, 8231>>, <<8234, 8238>>, <<8288, 8292>>,
     <<8294, 8303>>, <<8305, 8305>>, <<8319, 8319>>, <<8336, 8348>>, <<8400, 8432>>,
     <<11388, 11389>>, <<11503, 11505>>, <<11631, 11631>>, <<11647, 11647>>, <<11744, 11775>>,
     <<11823, 11823>>, <<12293, 12293>>, <<12330, 12333>>, <<12337, 12341>>, <<12347, 12347>>,
     <<12441, 12446>>, <<12540, 12542>>, <<40981, 40981>>, <<42232, 42237>>, <<42508, 42508>>,
     <<42607, 42610>>, <<42612, 42621>>, <<42623, 42623>>, <<42652, 42655>>, <<42736, 42737>>,
     <<42752, 42785>>, <<42864, 42864>>, <<42888, 42890>>, <<42994, 42996>>, <<43000, 43001>>,
     <<43010, 43010>>, <<43014, 43014>>, <<43019, 43019>>, <<43045, 43046>>, <<43052, 43052>>,
     <<43204, 43205>>, <<43232, 43249>>, <<43263, 43263>>, <<43302, 43309>>, <<43335, 43345>>,
     <<43392, 43394>>, <<43443, 43443>>, <<43446, 43449>>, <<43452, 43453>>, <<43471, 43471>>,
     <<43493, 43494>>, <<43561, 43566>>, <<43569, 43570>>, <<43573, 43574>>, <<43587, 43587>>,
     <<43596, 43596>>, <<43632, 43632>>, <<43644, 43644>>, <<43696, 43696>>, <<43698, 43700>>,
     <<43703, 43704>>, <<43710, 43711>>, <<43713, 43713>>, <<43741, 43741>>, <<43756, 43757>>,
     <<43763, 43764>>, <<43766, 43766>>, <<43867, 43871>>, <<43881, 43883>>, <<44005, 44005>>,
     <<44008, 44008>>, <<44013, 44013>>, <<64286, 64286>>, <<64434, 64450>>, <<65024, 65039>>,
     <<65043, 65043>>, <<65056, 65071>>, <<65106, 65106>>, <<65109, 65109>>, <<65279, 65279>>,
     <<65287, 65287>>, <<65294, 65294>>, <<65306, 65306>>, <<65342, 65342>>, <<65344, 65344>>,
     <<65392, 65392>>, <<65438, 65439>>, <<65507, 65507>>, <<65529, 65531>>, <<66045, 66045>>,
     <<66272, 66272>>, <<66422, 66426>>, <<67456, 67461>>, <<67463, 67504>>, <<67506, 67514>>,
     <<68097, 68099>>, <<68101, 68102>>, <<68108, 68111>>, <<68152, 68154>>, <<68159, 68159>>,
     <<68325, 68326>>, <<68900, 68903>>, <<69291, 69292>>, <<69446, 69456>>, <<69506, 69509>>,
     <<69633, 69633>>, <<69688, 69702>>, <<69744, 69744>>, <<69747, 69748>>, <<69759, 69761>>,
     <<69811, 69814>>, <<69817, 69818>>, <<69821, 69821>>, <<69826, 69826>>, <<69837, 69837>>,
     <<69888, 69890>>, <<69927, 69931>>, <<69933, 69940>>, <<70003, 70003>>, <<70016, 70017>>,
     <<70070, 70078>>, <<70089, 70092>>, <<70095, 70095>>, <<70191, 70193>>, <<70196, 70196>>,
     <<70198, 70199>>, <<70206, 70206>>, <<70367, 70367>>, <<70371, 70378>>, <<70400, 70401>>,
     <<70459, 70460>>, <<70464, 70464>>, <<70502, 70508>>, <<70512, 70516>>, <<70712, 70719>>,
     <<70722, 70724>>, <<70726, 70726>>, <<70750, 70750>>, <<70835, 70840>>, <<70842, 70842>>,
     <<70847, 70848>>, <<70850, 70851>>, <<71090, 71093>>, <<71100, 71101>>, <<71103, 71104>>,
     <<71132, 71133>>, <<71219, 71226>>, <<71229, 71229>>, <<71231, 71232>>, <<71339, 71339>>,
     <<71341, 71341>>, <<71344, 71349>>, <<71351, 71351>>, <<71453, 71455>>, <<71458, 71461>>,
     <<71463, 71467>>, <<71727, 71735>>, <<71737, 71738>>, <<71995, 71996>>, <<71998, 71998>>,
     <<72003, 72003>>, <<72148, 72151>>, <<72154, 72155>>, <<72160, 72160>>, <<72193, 72202>>,
     <<72243, 72248>>, <<72251, 72254>>, <<72263, 72263>>, <<72273, 72278>>, <<72281, 72283>>,
     <<72330, 72342>>, <<72344, 72345>>, <<72752, 72758>>, <<72760, 72765>>, <<72767, 72767>>,
     <<72850, 72871>>, <<72874, 72880>>, <<72882, 72883>>, <<72885, 72886>>, <<73009, 73014>>,
     <<73018, 73018>>, <<73020, 73021>>, <<73023, 73029>>, <<73031, 73031>>, <<73104, 73105>>,
     <<73109, 73109>>, <<73111, 73111>>, <<73459, 73460>>, <<78896, 78904>>, <<92912, 92916>>,
     <<92976, 92982>>, <<92992, 92995>>, <<94031, 94031>>, <<94095, 94111>>, <<94176, 94177>>,
     <<94179, 94180>>, <<110576, 110579>>, <<110581, 110587>>, <<110589, 110590>>,
     <<113821, 113822>>, <<113824, 113827>>, <<118528, 118573>>, <<118576, 118598>>,
     <<119143, 119145>>, <<119155, 119170>>, <<119173, 119179>>, <<119210, 119213>>,
     <<119362, 119364>>, <<121344, 121398>>, <<121403, 121452>>, <<121461, 121461>>,
     <<121476, 121476>>, <<121499, 121503>>, <<121505, 121519>>, <<122880, 122886>>,
     <<122888, 122904>>, <<122907, 122913>>, <<122915, 122916>>, <<122918, 122922>>,
     <<123184, 123197>>, <<123566, 123566>>, <<123628, 123631>>, <<125136, 125142>>,
     <<125252, 125259>>, <<127995, 127999>>, <<917505, 917505>>, <<917536, 917631>>,
     <<917760, 917999>>}

\* the decimal digits: the characters float() and int() read as 0 to 9
Digits == UNION {z..(z + 9) : z \in DigitZeros}

DigitVal(c) == c - (CHOOSE z \in DigitZeros : c \in z..(z + 9))

\* the characters str.isspace() holds for
Whitespace ==
    (9..13) \cup (28..32) \cup {133, 160, 5760} \cup (8192..8202)
        \cup {8232, 8233, 8239, 8287, 12288}

\* the characters float() skips around a numeral: the ASCII whitespace and
\* the whitespace beyond ASCII
FloatSpace == (9..13) \cup {32} \cup {c \in Whitespace : c > 127}

\* the characters of a run of LowerRuns
RunChars(r) == {r[1] + k * r[3] : k \in 0..((r[2] - r[1]) \div r[3])}

Lowered == UNION {RunChars(r) : r \in LowerRuns}

Cased == UNION {r[1]..r[2] : r \in CasedRanges}

CaseIgnorable == UNION {r[1]..r[2] : r \in CaseIgnorableRanges}

\* str.lower() of one character: U+0130 becomes 'i' and U+0307
lower_char(c) ==
    IF c = 304 THEN <<105, 775>>
    ELSE IF c \in Lowered THEN <<c + (CHOOSE r \in LowerRuns : c \in RunChars(r))[4]>>
    ELSE <<c>>

\* the capital sigma s[i] ends a word: the nearest character before it that
\* is not case-ignorable is cased, and the nearest such character after it,
\* if any, is not
final_sigma(s, i) ==
    LET before == {j \in 1..(i - 1) : s[j] \notin CaseIgnorable}
        after == {j \in (i + 1)..Len(s) : s[j] \notin CaseIgnorable}
    IN  /\ \E j \in before : s[j] \in Cased /\ \A k \in before : k <= j
        /\ \A j \in after : s[j] \in Cased => \E k \in after : k < j

\* str.lower() of the characters lo to hi of s
RECURSIVE lower_range(_, _, _)
lower_range(s, lo, hi) ==
    IF lo > hi THEN <<>>
    ELSE IF lo < hi
    THEN lower_range(s, lo, (lo + hi) \div 2) \o lower_range(s, (lo + hi) \div 2 + 1, hi)
    ELSE IF s[lo] = 931 THEN <<IF final_sigma(s, lo) THEN 962 ELSE 963>>
    ELSE lower_char(s[lo])

lower(s) == lower_range(s, 1, Len(s))

-----------------------------------------------------------------------------
(* Value coercion.  A cell is a missing value (None, numpy.nan, pandas.NA, *)
(* pandas.NaT: the values pd.isna() holds for) or any other object; its    *)
(* text is its str().                                                      *)

None == [null |-> TRUE, text |-> Str("None")]
nan == [null |-> TRUE, text |-> Str("nan")]
NA == [null |-> TRUE, text |-> Str("<NA>")]
NaT == [null |-> TRUE, text |-> Str("NaT")]
Text(s) == [null |-> FALSE, text |-> s]

\* s without its leading characters of chars
lstrip_of(s, chars) ==
    IF \A i \in 1..Len(s) : s[i] \in chars THEN <<>>
    ELSE SubSeq(s, CHOOSE i \in 1..Len(s) :
                       s[i] \notin chars /\ \A j \in 1..(i - 1) : s[j] \in chars,
                Len(s))

\* s without its trailing characters of chars
rstrip_of(s, chars) ==
    IF \A i \in 1..Len(s) : s[i] \in chars THEN <<>>
    ELSE SubSeq(s, 1, CHOOSE i \in 1..Len(s) :
                          s[i] \notin chars /\ \A j \in (i + 1)..Len(s) : s[j] \in chars)

\* str.strip(): drop leading and trailing whitespace
lstrip(s) == lstrip_of(s, Whitespace)

rstrip(s) == rstrip_of(s, Whitespace)

strip(s) == rstrip(lstrip(s))

\* str.replace(c, ''): drop every occurrence of the character c
remove(s, c) == SelectSeq(s, LAMBDA x : x # c)

endswith(s, c) == s # <<>> /\ s[Len(s)] = c

\* outcome of an expression: the value returned or the exception raised
Return(v) == [raised |-> "", ret |-> v]
Raise(e, v) == [raised |-> e, ret |-> v]

IsDigits(s) == \A i \in 1..Len(s) : s[i] \in Digits

\* value of a digit string read as a decimal numeral (0 for the empty string)
RECURSIVE DigitsVal(_)
DigitsVal(s) ==
    IF s = <<>> THEN <<>>
    ELSE IF Len(s) = 1 THEN NatOf(DigitVal(s[1]))
    ELSE LET h == Len(s) \div 2
             low == SubSeq(s, h + 1, Len(s))
         IN  NatAdd(NatMul(DigitsVal(SubSeq(s, 1, h)), NatPow10(Len(low))),
                    DigitsVal(low))

\* an unsigned decimal numeral: digits, digits '.', '.' digits or digits '.' digits
IsDecimal(s) ==
    \/ s # <<>> /\ IsDigits(s)
    \/ \E i \in 1..Len(s) :
          /\ s[i] = ord(".")
          /\ IsDigits(SubSeq(s, 1, i - 1))
          /\ IsDigits(SubSeq(s, i + 1, Len(s)))
          /\ Len(s) > 1

\* an exponent: an optional sign and at least one digit
IsExponent(s) ==
    LET digits == IF s # <<>> /\ Head(s) \in {ord("-"), ord("+")} THEN Tail(s) ELSE s
    IN  digits # <<>> /\ IsDigits(digits)

\* the position of the exponent mark of a numeral, 0 without one
ExponentMark(s) ==
    IF \E i \in 1..Len(s) : s[i] \in {ord("e"), ord("E")}
    THEN CHOOSE i \in 1..Len(s) : s[i] \in {ord("e"), ord("E")} /\ \A j \in 1..(i - 1) : s[j] \notin {ord("e"), ord("E")}
    ELSE 0

\* a decimal numeral with an optional exponent
IsNumeral(s) ==
    LET m == ExponentMark(s)
    IN  IF m = 0 THEN IsDecimal(s)
        ELSE IsDecimal(SubSeq(s, 1, m - 1)) /\ IsExponent(SubSeq(s, m + 1, Len(s)))

\* the number of characters behind the point of a decimal numeral
FractionLen(s) ==
    IF \E i \in 1..Len(s) : s[i] = ord(".")
    THEN Len(s) - (CHOOSE i \in 1..Len(s) : s[i] = ord("."))
    ELSE 0

\* the machine integer of a Python int of at most two digits
IntVal(a) == (IF a.neg THEN -1 ELSE 1) * (Digit(a.mag, 1) + Base * Digit(a.mag, 2))

\* the double nearest (-1)^neg * n * 10^x
Decimal(neg, n, x) ==
    IF n = <<>> THEN SignedZero(neg)
    ELSE IF NatBits(n) - 1 + (IF x >= 0 THEN 3 * x ELSE 4 * x) >= MaxBits THEN Inf(neg)
    ELSE IF NatBits(n) + (IF x >= 0 THEN 4 * x ELSE 3 * x) < MinExp THEN SignedZero(neg)
    ELSE IF x >= 0 THEN Round(neg, NatMul(n, NatPow10(x)), 0, FALSE)
    ELSE RoundRatio(neg, n, NatPow10(-x), 0)

\* the double nearest (-1)^neg * 0.d1...dk * 10^x of the digits d1...dk, d1
\* not 0, and the Python int x: an infinity from 10^309 on, a zero below
\* 10^-324
Scientific(neg, digits, x) ==
    IF digits = <<>> THEN SignedZero(neg)
    ELSE IF IntLe(IntOf(310), x) THEN Inf(neg)
    ELSE IF IntLe(x, IntOf(-324)) THEN SignedZero(neg)
    ELSE Decimal(neg, DigitsVal(digits), IntVal(x) - Len(digits))

\* the float of a numeral: its digits without the leading and the trailing
\* zeros, scaled by the exponent and the place of the point
NumeralVal(neg, s) ==
    LET m == ExponentMark(s)
        mantissa == IF m = 0 THEN s ELSE SubSeq(s, 1, m - 1)
        exponent == IF m = 0 THEN <<>> ELSE SubSeq(s, m + 1, Len(s))
        signed == exponent # <<>> /\ Head(exponent) \in {ord("-"), ord("+")}
        e == SignedNat(signed /\ Head(exponent) = ord("-"),
                       DigitsVal(lstrip_of(IF signed THEN Tail(exponent) ELSE exponent,
                                           DigitZeros)))
        scaled(significant) ==
            Scientific(neg, rstrip_of(significant, DigitZeros),
                       IntAdd(e, IntOf(Len(significant) - FractionLen(mantissa))))
    IN  scaled(lstrip_of(remove(mantissa, ord(".")), DigitZeros))

\* an underscore of a numeral stands between two digits
UnderscoresBetweenDigits(s) ==
    \A i \in 1..Len(s) :
        s[i] = ord("_") => /\ i > 1 /\ s[i - 1] \in Digits
                           /\ i < Len(s) /\ s[i + 1] \in Digits

\* the ASCII letters of s in lower case
ascii_lower(s) == [i \in 1..Len(s) |-> IF s[i] \in 65..90 THEN s[i] + 32 ELSE s[i]]

\* float(s) of a text: around it whitespace, then an optional sign, then inf,
\* infinity or nan in any letter case, or a decimal numeral with an optional
\* exponent and underscores between digits; anything else raises ValueError
float_of_text(s) ==
    LET t == rstrip_of(lstrip_of(s, FloatSpace), FloatSpace)
        u == remove(t, ord("_"))
        neg == u # <<>> /\ Head(u) = ord("-")
        body == IF u # <<>> /\ Head(u) \in {ord("-"), ord("+")} THEN Tail(u) ELSE u
    IN  IF ~UnderscoresBetweenDigits(t) THEN Raise("ValueError", NaN)
        ELSE IF ascii_lower(body) \in {Str("inf"), Str("infinity")} THEN Return(Inf(neg))
        ELSE IF ascii_lower(body) = Str("nan") THEN Return(NaN)
        ELSE IF IsNumeral(body) THEN Return(NumeralVal(neg, body))
        ELSE Raise("ValueError", NaN)

\* int(x) of a float: truncation; raises on the non-finite values
int_of_float(x) ==
    IF IsNaN(x) THEN Raise("ValueError", IntZero)
    ELSE IF IsInf(x) THEN Raise("OverflowError", IntZero)
    ELSE Return(Trunc(x))

\* try: outcome  except (ValueError, TypeError): return default
Caught == {"ValueError", "TypeError"}

try_except(outcome, default) ==
    IF outcome.raised \in Caught THEN Return(default) ELSE outcome

safe_float_convert_keep_percent(v) ==
    IF v.null \/ v.text = <<>> THEN Return(Zero)
    ELSE LET s1 == remove(remove(strip(v.text), ord(",")), ord(" "))
         IN  try_except(float_of_text(s1), Zero)

safe_float_convert(v) ==
    IF v.null \/ v.text = <<>> THEN Return(Zero)
    ELSE LET s1 == remove(remove(strip(v.text), ord(",")), ord(" "))
             s2 == IF endswith(s1, ord("%")) THEN SubSeq(s1, 1, Len(s1) - 1) ELSE s1
         IN  try_except(float_of_text(s2), Zero)

safe_int_convert(v) ==
    IF v.null \/ v.text = <<>> THEN Return(IntZero)
    ELSE LET s1 == remove(remove(strip(v.text), ord(",")), ord(" "))
             int(f) == IF f.raised # "" THEN Raise(f.raised, IntZero)
                       ELSE int_of_float(f.ret)
         IN  try_except(int(float_of_text(s1)), IntZero)

-----------------------------------------------------------------------------
(* Record standardizer.  A data frame is its column labels and its rows,   *)
(* a row being the cells in column order.                                  *)

\* str.replace(a, b) for single characters
replace_char(s, a, b) == [i \in 1..Len(s) |-> IF s[i] = a THEN b ELSE s[i]]

qty_columns == <<Str("qty"), Str("quantity"), Str("current_qty"), Str("stock_qty")>>

rm_columns ==
    <<Str("rm"), Str("rm_qty"), Str("required_qty"), Str("norm_qty"), Str("target_qty"), Str("rm_in_qty"),
      Str("ri_in_qty")>>

material_columns ==
    <<Str("material"), Str("material_code"), Str("part_number"), Str("item_code"), Str("code"), Str("part_no")>>

desc_columns ==
    <<Str("description"), Str("item_description"), Str("part_description"), Str("desc"),
      Str("part description"), Str("material_description"), Str("part_desc")>>

value_columns == <<Str("stock_value"), Str("value"), Str("amount"), Str("cost")>>

vendor_columns == <<Str("vendor"), Str("vendor_name"), Str("supplier"), Str("supplier_name")>>

\* {k.lower().replace(' ', '_'): k for k in df.columns}
RECURSIVE available_from(_, _, _)
available_from(columns, i, dict) ==
    IF i > Len(columns) THEN dict
    ELSE available_from(columns, i + 1,
             Put(dict, replace_char(lower(columns[i]), ord(" "), ord("_")), columns[i]))

available_columns(columns) == available_from(columns, 1, empty_dict)

\* None, for a column that was not found
NoCol == <<>>

RECURSIVE find_column_last(_, _, _)
find_column_last(candidates, available, i) ==
    IF i > Len(candidates) THEN NoCol
    ELSE LET later == find_column_last(candidates, available, i + 1)
         IN  IF later # NoCol THEN later
             ELSE IF InDict(available, candidates[i]) THEN Get(available, candidates[i])
             ELSE NoCol

\* the loop over the candidate names, from candidate i on
RECURSIVE find_column(_, _, _)
find_column(candidates, available, i) ==
    IF i > Len(candidates) THEN NoCol
    ELSE IF InDict(available, candidates[i]) THEN Get(available, candidates[i])
    ELSE find_column(candidates, available, i + 1)

resolve_columns(columns) ==
    LET available == available_columns(columns)
    IN  [qty_col |-> find_column(qty_columns, available, 1),
         rm_col |-> find_column(rm_columns, available, 1),
         material_col |-> find_column(material_columns, available, 1),
         desc_col |-> find_column(desc_columns, available, 1),
         value_col |-> find_column(value_columns, available, 1),
         vendor_col |-> find_column(vendor_columns, available, 1)]

\* record.get(col, default) for a column of the frame
cell_of(frame, row, col) ==
    row[CHOOSE i \in 1..Len(frame.columns) : frame.columns[i] = col]

\* str(cell)
str(cell) == cell.text

Unknown == Str("Unknown")

\* the body of the try block for one row: the items it appends (none or one)
row_items(frame, row, cols) ==
    LET material == strip(str(cell_of(frame, row, cols.material_col)))
        vendor == IF cols.vendor_col # NoCol
                  THEN strip(str(cell_of(frame, row, cols.vendor_col)))
                  ELSE Unknown
        description == IF cols.desc_col # NoCol
                       THEN strip(str(cell_of(frame, row, cols.desc_col)))
                       ELSE <<>>
        \* the item of the converted quantity q, norm r and stock value
        appended(q, r, stock) ==
            IF stock.raised # "" THEN Raise(stock.raised, <<>>)
            ELSE Return(<<[Material |-> material,
                           Description |-> description,
                           QTY |-> q.ret,
                           RM_IN_QTY |-> r.ret,
                           Stock_Value |-> stock.ret,
                           Vendor |-> vendor]>>)
        checked(q, r) ==
            IF q.raised # "" THEN Raise(q.raised, <<>>)
            ELSE IF r.raised # "" THEN Raise(r.raised, <<>>)
            ELSE IF material # <<>> /\ lower(material) # Str("nan")
                    /\ FGe(q.ret, Zero) /\ FGe(r.ret, Zero)
            THEN appended(q, r, IF cols.value_col # NoCol
                                THEN safe_int_convert(cell_of(frame, row, cols.value_col))
                                ELSE Return(IntZero))
            ELSE Return(<<>>)
    IN  checked(safe_float_convert(cell_of(frame, row, cols.qty_col)),
                safe_float_convert(cell_of(frame, row, cols.rm_col)))

RECURSIVE rows_loop_abort(_, _, _, _)
rows_loop_abort(frame, cols, i, standardized_data) ==
    IF i > Len(frame.rows) THEN standardized_data
    ELSE LET next(o) ==
                 IF o.raised # "" THEN standardized_data
                 ELSE rows_loop_abort(frame, cols, i + 1, standardized_data \o o.ret)
         IN  next(row_items(frame, frame.rows[i], cols))

\* the loop over the rows from row i on; any exception skips the row
RECURSIVE rows_loop(_, _, _, _)
rows_loop(frame, cols, i, standardized_data) ==
    IF i > Len(frame.rows) THEN standardized_data
    ELSE LET next(o) ==
                 rows_loop(frame, cols, i + 1,
                           IF o.raised # "" THEN standardized_data
                           ELSE standardized_data \o o.ret)
         IN  next(row_items(frame, frame.rows[i], cols))

standardize_inventory_data_raise(frame) ==
    IF frame.columns = <<>> \/ frame.rows = <<>> THEN Return(<<>>)
    ELSE LET cols == resolve_columns(frame.columns)
         IN  IF cols.qty_col = NoCol THEN Raise("KeyError", <<>>)
             ELSE IF cols.rm_col = NoCol THEN Return(<<>>)
             ELSE IF cols.material_col = NoCol THEN Raise("KeyError", <<>>)
             ELSE Return(rows_loop(frame, cols, 1, <<>>))

standardize_inventory_data(frame) ==
    IF frame.columns = <<>> \/ frame.rows = <<>> THEN Return(<<>>)
    ELSE LET cols == resolve_columns(frame.columns)
         IN  IF cols.qty_col = NoCol THEN Return(<<>>)
             ELSE IF cols.rm_col = NoCol THEN Return(<<>>)
             ELSE IF cols.material_col = NoCol THEN Return(<<>>)
             ELSE Return(rows_loop(frame, cols, 1, <<>>))

-----------------------------------------------------------------------------
(* Sample data.                                                            *)

inventory_sample ==
    <<<<Str("AC0303020106"), Str("FLAT ALUMINIUM PROFILE"), Str("5.230"), Str("4.000"), Str("496"), Str("Vendor_A")>>,
      <<Str("AC0303020105"), Str("RAIN GUTTER PROFILE"), Str("8.360"), Str("6.000"), Str("1984"), Str("Vendor_B")>>,
      <<Str("AA0106010001"), Str("HYDRAULIC POWER STEERING OIL"), Str("12.500"), Str("10.000"), Str("2356"), Str("Vendor_A")>>,
      <<Str("AC0203020077"), Str("Bulb beading LV battery flap"), Str("3.500"), Str("3.000"), Str("248"), Str("Vendor_C")>>,
      <<Str("AC0303020104"), Str("L- PROFILE JAM PILLAR"), Str("15.940"), Str("20.000"), Str("992"), Str("Vendor_A")>>,
      <<Str("AA0112014000"), Str("Conduit Pipe Filter to Compressor"), Str("25"), Str("30"), Str("1248"), Str("Vendor_B")>>,
      <<Str("AA0115120001"), Str("HVPDU ms"), Str("18"), Str("12"), Str("1888"), Str("Vendor_D")>>,
      <<Str("AA0119020017"), Str("REAR TURN INDICATOR"), Str("35"), Str("40"), Str("1512"), Str("Vendor_C")>>,
      <<Str("AA0119020019"), Str("REVERSING LAMP"), Str("28"), Str("20"), Str("1152"), Str("Vendor_A")>>,
      <<Str("AA0822010800"), Str("SIDE DISPLAY BOARD"), Str("42"), Str("50"), Str("2496"), Str("Vendor_B")>>,
      <<Str("BB0101010001"), Str("ENGINE OIL FILTER"), Str("65"), Str("45"), Str("1300"), Str("Vendor_E")>>,
      <<Str("BB0202020002"), Str("BRAKE PAD SET"), Str("22"), Str("25"), Str("880"), Str("Vendor_C")>>,
      <<Str("CC0303030003"), Str("CLUTCH DISC"), Str("8"), Str("12"), Str("640"), Str("Vendor_D")>>,
      <<Str("DD0404040004"), Str("SPARK PLUG"), Str("45"), Str("35"), Str("450"), Str("Vendor_A")>>,
      <<Str("EE0505050005"), Str("AIR FILTER"), Str("30"), Str("28"), Str("600"), Str("Vendor_B")>>,
      <<Str("FF0606060006"), Str("FUEL FILTER"), Str("55"), Str("50"), Str("1100"), Str("Vendor_E")>>,
      <<Str("GG0707070007"), Str("TRANSMISSION OIL"), Str("40"), Str("35"), Str("800"), Str("Vendor_C")>>,
      <<Str("HH0808080008"), Str("COOLANT"), Str("22"), Str("30"), Str("660"), Str("Vendor_D")>>,
      <<Str("II0909090009"), Str("BRAKE FLUID"), Str("15"), Str("12"), Str("300"), Str("Vendor_A")>>,
      <<Str("JJ1010101010"), Str("WINDSHIELD WASHER"), Str("33"), Str("25"), Str("495"), Str("Vendor_B")>>>>

load_sample_data ==
    [i \in 1..Len(inventory_sample) |->
        LET row == inventory_sample[i]
        IN  [Material |-> row[1],
             Description |-> row[2],
             QTY |-> safe_float_convert(Text(row[3])).ret,
             RM_IN_QTY |-> safe_float_convert(Text(row[4])).ret,
             Stock_Value |-> safe_int_convert(Text(row[5])).ret,
             Vendor |-> row[6]]]

-----------------------------------------------------------------------------
(* Loading of the dataset in main.                                         *)

\* the try block: read the file, standardize it, fall back on no valid data
read_and_standardize_no_fallback(kind, frame) ==
    IF kind = "error" THEN Raise("Exception", <<>>)
    ELSE standardize_inventory_data(frame)

read_and_standardize(kind, frame) ==
    IF kind = "error" THEN Raise("Exception", <<>>)
    ELSE LET fallback(o) ==
                 IF o.raised # "" THEN o
                 ELSE IF o.ret # <<>> THEN o
                 ELSE Return(load_sample_data)
         IN  fallback(standardize_inventory_data(frame))

\* the dataset main passes to process_data
main_load(kind, frame) ==
    IF kind # "none"
    THEN LET handled(o) == IF o.raised # "" THEN Return(load_sample_data) ELSE o
         IN  handled(read_and_standardize(kind, frame))
    ELSE Return(load_sample_data)

-----------------------------------------------------------------------------
(* Ranking helpers.                                                        *)

TopK == 10
VendorTopK == 3

filter_status(processed, st) == SelectSeq(processed, LAMBDA item : item.Status = st)

\* the sort key of the charts: abs(Variance_Value) for short parts, else Variance_Value
sort_key(item, st) ==
    IF st = Short THEN FAbs(item.Variance_Value) ELSE item.Variance_Value

(* sorted(items, key=..., reverse=True) is list.sort of CPython 3.11 on a    *)
(* copy of the list: it computes the key of every item, reverses the list,   *)
(* sorts it ascending and stably by comparing keys with < only, and reverses *)
(* the result.  The list is cut into runs, found at its head or made by      *)
(* binary insertion, and the runs are merged.  With a key that is nan every  *)
(* < is false, so the result depends on the comparisons the algorithm makes, *)
(* which are modelled one by one.  The items are sorted as their places in   *)
(* the list; lt[x][y] is the comparison key(x) < key(y) of the items at the  *)
(* places x and y.                                                           *)

MIN_GALLOP == 7

\* key(x) < key(y)
ISLT(x, y, lt) == lt[x][y]

reverse_slice(a) == [i \in 1..Len(a) |-> a[Len(a) + 1 - i]]

\* count_run: the length of the run at the head of a, of which a[1..n] is known:
\* strictly descending, or else non-descending
RECURSIVE count_run(_, _, _, _)
count_run(a, n, descending, lt) ==
    IF n >= Len(a) THEN n
    ELSE IF ISLT(a[n + 1], a[n], lt) = descending THEN count_run(a, n + 1, descending, lt)
    ELSE n

\* the place of pivot in a[l..r-1] by bisection, behind the items not above it
RECURSIVE binary_search(_, _, _, _, _)
binary_search(a, pivot, l, r, lt) ==
    LET next(p, below) ==
            IF (IF below THEN l ELSE p + 1) < (IF below THEN p ELSE r)
            THEN binary_search(a, pivot, IF below THEN l ELSE p + 1,
                               IF below THEN p ELSE r, lt)
            ELSE IF below THEN l ELSE p + 1
    IN  next(l + (r - l) \div 2, ISLT(pivot, a[l + (r - l) \div 2], lt))

\* binarysort: a[1..start] is sorted; the items behind are inserted one by one
RECURSIVE binarysort(_, _, _)
binarysort(a, start, lt) ==
    IF start >= Len(a) THEN a
    ELSE LET insert(l) ==
                 SubSeq(a, 1, l - 1) \o <<a[start + 1]>> \o SubSeq(a, l, start)
                     \o SubSeq(a, start + 2, Len(a))
         IN  binarysort(insert(binary_search(a, a[start + 1], 1, start + 1, lt)),
                        start + 1, lt)

\* the smaller of two numbers
Least(a, b) == IF a < b THEN a ELSE b

\* the test of a gallop for key: x < key in gallop_left, which finds the place
\* before the items equal to key, and not key < x in gallop_right, which finds
\* the place behind them
Precedes(x, key, left, lt) == IF left THEN ISLT(x, key, lt) ELSE ~ISLT(key, x, lt)

\* offsets are counted from 0, as in the source: a[i] there is a[i + 1] here.
\* The steps 1, 3, 7, ... to the right of a[hint]: the bounds of the bisection
RECURSIVE gallop_up(_, _, _, _, _, _, _)
gallop_up(key, a, hint, lastofs, ofs, left, lt) ==
    IF ofs < Len(a) - hint /\ Precedes(a[hint + ofs + 1], key, left, lt)
    THEN gallop_up(key, a, hint, ofs, 2 * ofs + 1, left, lt)
    ELSE [lastofs |-> lastofs + hint + 1, ofs |-> Least(ofs, Len(a) - hint) + hint]

\* the steps to the left of a[hint]
RECURSIVE gallop_down(_, _, _, _, _, _, _)
gallop_down(key, a, hint, lastofs, ofs, left, lt) ==
    IF ofs < hint + 1 /\ ~Precedes(a[hint - ofs + 1], key, left, lt)
    THEN gallop_down(key, a, hint, ofs, 2 * ofs + 1, left, lt)
    ELSE [lastofs |-> hint - Least(ofs, hint + 1) + 1, ofs |-> hint - lastofs]

\* the bisection between the bounds r
RECURSIVE gallop_search(_, _, _, _, _)
gallop_search(key, a, r, left, lt) ==
    IF r.lastofs >= r.ofs THEN r.ofs
    ELSE IF Precedes(a[r.lastofs + (r.ofs - r.lastofs) \div 2 + 1], key, left, lt)
         THEN gallop_search(key, a, [lastofs |-> r.lastofs + (r.ofs - r.lastofs) \div 2 + 1,
                                     ofs |-> r.ofs], left, lt)
    ELSE gallop_search(key, a, [lastofs |-> r.lastofs,
                                ofs |-> r.lastofs + (r.ofs - r.lastofs) \div 2], left, lt)

\* the number of items of the sorted a that come before key, found from a[hint]
\* by steps of 1, 3, 7, ... and then by bisection
gallop(key, a, hint, left, lt) ==
    gallop_search(key, a,
                  IF Precedes(a[hint + 1], key, left, lt)
                  THEN gallop_up(key, a, hint, 0, 1, left, lt)
                  ELSE gallop_down(key, a, hint, 0, 1, left, lt),
                  left, lt)

gallop_left(key, a, hint, lt) == gallop(key, a, hint, TRUE, lt)

gallop_right(key, a, hint, lt) == gallop(key, a, hint, FALSE, lt)

\* the result of a merge: the merged run and the min_gallop it leaves
Merged(run, min_gallop) == [run |-> run, min_gallop |-> min_gallop]

\* a merge under way: the items of A and B not yet merged, the merged items
\* dest, how often in a row A and B have won, and what the merge does next:
\* "pairs" compares one item of A with one of B, "gallop_right" takes a stretch
\* of A and "gallop_left" a stretch of B
Merging(A, B, dest, acount, bcount, min_gallop, mode) ==
    [A |-> A, B |-> B, dest |-> dest, acount |-> acount, bcount |-> bcount,
     min_gallop |-> min_gallop, mode |-> mode]

\* a merge that has ended with the run dest
Succeed(dest, min_gallop) == Merging(<<>>, <<>>, dest, 0, 0, min_gallop, "done")

\* merge_lo, with at least two items of A and one of B left: dest is the merged
\* front.  One item at a time until one run wins min_gallop times in a row
merge_lo_pairs(s, lt) ==
    IF ISLT(s.B[1], s.A[1], lt)
    THEN IF Len(s.B) = 1 THEN Succeed(s.dest \o s.B \o s.A, s.min_gallop)
         ELSE IF s.bcount + 1 >= s.min_gallop
              THEN Merging(s.A, Tail(s.B), Append(s.dest, s.B[1]), 0, 0,
                           s.min_gallop + 1, "gallop_right")
         ELSE Merging(s.A, Tail(s.B), Append(s.dest, s.B[1]), 0, s.bcount + 1,
                      s.min_gallop, "pairs")
    ELSE IF Len(s.A) = 2
         THEN Succeed(s.dest \o <<s.A[1]>> \o s.B \o <<s.A[2]>>, s.min_gallop)
         ELSE IF s.acount + 1 >= s.min_gallop
              THEN Merging(Tail(s.A), s.B, Append(s.dest, s.A[1]), 0, 0,
                           s.min_gallop + 1, "gallop_right")
         ELSE Merging(Tail(s.A), s.B, Append(s.dest, s.A[1]), s.acount + 1, 0,
                      s.min_gallop, "pairs")

\* then by gallops: the items of A that come before B's first, and B's first
merge_lo_gallop_right(s, lt) ==
    LET mg == IF s.min_gallop > 1 THEN s.min_gallop - 1 ELSE s.min_gallop
        take(ka) ==
            IF Len(s.A) - ka <= 1 \/ Len(s.B) = 1
            THEN Succeed(s.dest \o SubSeq(s.A, 1, ka) \o s.B \o SubSeq(s.A, ka + 1, Len(s.A)),
                         mg)
            ELSE Merging(SubSeq(s.A, ka + 1, Len(s.A)), Tail(s.B),
                         s.dest \o SubSeq(s.A, 1, ka) \o <<s.B[1]>>, ka, 0, mg, "gallop_left")
    IN  take(gallop_right(s.B[1], s.A, 0, lt))

\* the items of B that come before A's first, and A's first; the gallops go
\* on while one of the two stretches has MIN_GALLOP items
merge_lo_gallop_left(s, lt) ==
    LET take(kb) ==
            IF kb = Len(s.B) THEN Succeed(s.dest \o s.B \o s.A, s.min_gallop)
            ELSE IF Len(s.A) = 2
                 THEN Succeed(s.dest \o SubSeq(s.B, 1, kb) \o <<s.A[1]>>
                                  \o SubSeq(s.B, kb + 1, Len(s.B)) \o <<s.A[2]>>,
                              s.min_gallop)
            ELSE IF s.acount >= MIN_GALLOP \/ kb >= MIN_GALLOP
                 THEN Merging(Tail(s.A), SubSeq(s.B, kb + 1, Len(s.B)),
                              s.dest \o SubSeq(s.B, 1, kb) \o <<s.A[1]>>, 0, 0,
                              s.min_gallop, "gallop_right")
            ELSE Merging(Tail(s.A), SubSeq(s.B, kb + 1, Len(s.B)),
                         s.dest \o SubSeq(s.B, 1, kb) \o <<s.A[1]>>, 0, 0,
                         s.min_gallop + 1, "pairs")
    IN  take(gallop_left(s.A[1], s.B, 0, lt))

\* a[:-1] and a[-1]
Front(a) == SubSeq(a, 1, Len(a) - 1)
Last(a) == a[Len(a)]

\* merge_hi, with at least one item of A and two of B left: dest is the merged
\* back, filled from the right
merge_hi_pairs(s, lt) ==
    IF ISLT(Last(s.B), Last(s.A), lt)
    THEN IF Len(s.A) = 1 THEN Succeed(s.B \o s.A \o s.dest, s.min_gallop)
         ELSE IF s.acount + 1 >= s.min_gallop
              THEN Merging(Front(s.A), s.B, <<Last(s.A)>> \o s.dest, 0, 0,
                           s.min_gallop + 1, "gallop_right")
         ELSE Merging(Front(s.A), s.B, <<Last(s.A)>> \o s.dest, s.acount + 1, 0,
                      s.min_gallop, "pairs")
    ELSE IF Len(s.B) = 2
         THEN Succeed(<<s.B[1]>> \o s.A \o <<s.B[2]>> \o s.dest, s.min_gallop)
         ELSE IF s.bcount + 1 >= s.min_gallop
              THEN Merging(s.A, Front(s.B), <<Last(s.B)>> \o s.dest, 0, 0,
                           s.min_gallop + 1, "gallop_right")
         ELSE Merging(s.A, Front(s.B), <<Last(s.B)>> \o s.dest, 0, s.bcount + 1,
                      s.min_gallop, "pairs")

\* the items of A that come behind B's last, and B's last
merge_hi_gallop_right(s, lt) ==
    LET mg == IF s.min_gallop > 1 THEN s.min_gallop - 1 ELSE s.min_gallop
        take(k) ==
            IF k = 0 THEN Succeed(s.B \o s.A \o s.dest, mg)
            ELSE IF Len(s.B) = 2
                 THEN Succeed(<<s.B[1]>> \o SubSeq(s.A, 1, k) \o <<s.B[2]>>
                                  \o SubSeq(s.A, k + 1, Len(s.A)) \o s.dest, mg)
            ELSE Merging(SubSeq(s.A, 1, k), Front(s.B),
                         <<Last(s.B)>> \o SubSeq(s.A, k + 1, Len(s.A)) \o s.dest,
                         Len(s.A) - k, 0, mg, "gallop_left")
    IN  take(gallop_right(Last(s.B), s.A, Len(s.A) - 1, lt))

\* the items of B that do not come before A's last, and A's last
merge_hi_gallop_left(s, lt) ==
    LET take(k) ==
            IF k <= 1 \/ Len(s.A) = 1
            THEN Succeed(SubSeq(s.B, 1, k) \o s.A \o SubSeq(s.B, k + 1, Len(s.B)) \o s.dest,
                         s.min_gallop)
            ELSE IF s.acount >= MIN_GALLOP \/ Len(s.B) - k >= MIN_GALLOP
                 THEN Merging(Front(s.A), SubSeq(s.B, 1, k),
                              <<Last(s.A)>> \o SubSeq(s.B, k + 1, Len(s.B)) \o s.dest, 0, 0,
                              s.min_gallop, "gallop_right")
            ELSE Merging(Front(s.A), SubSeq(s.B, 1, k),
                         <<Last(s.A)>> \o SubSeq(s.B, k + 1, Len(s.B)) \o s.dest, 0, 0,
                         s.min_gallop + 1, "pairs")
    IN  take(gallop_left(Last(s.A), s.B, Len(s.B) - 1, lt))

\* the loop of merge_lo (low) and of merge_hi: steps until the merge has ended
RECURSIVE merge_loop(_, _, _)
merge_loop(s, low, lt) ==
    IF s.mode = "done" THEN Merged(s.dest, s.min_gallop)
    ELSE merge_loop(IF low
                    THEN IF s.mode = "pairs" THEN merge_lo_pairs(s, lt)
                         ELSE IF s.mode = "gallop_right" THEN merge_lo_gallop_right(s, lt)
                         ELSE merge_lo_gallop_left(s, lt)
                    ELSE IF s.mode = "pairs" THEN merge_hi_pairs(s, lt)
                         ELSE IF s.mode = "gallop_right" THEN merge_hi_gallop_right(s, lt)
                         ELSE merge_hi_gallop_left(s, lt),
                    low, lt)

merge_lo(A, B, min_gallop, lt) ==
    IF Len(A) = 1 \/ Len(B) = 1 THEN Merged(B \o A, min_gallop)
    ELSE merge_loop(Merging(A, Tail(B), <<B[1]>>, 0, 0, min_gallop, "pairs"), TRUE, lt)

merge_hi(A, B, min_gallop, lt) ==
    IF Len(A) = 1 \/ Len(B) = 1 THEN Merged(B \o A, min_gallop)
    ELSE merge_loop(Merging(Front(A), B, <<Last(A)>>, 0, 0, min_gallop, "pairs"), FALSE, lt)

\* the merge of the items of A from the place k + 1 with the first nb of B
merge_between(A, B, k, nb, min_gallop, lt) ==
    LET place(m) ==
            Merged(SubSeq(A, 1, k) \o m.run \o SubSeq(B, nb + 1, Len(B)), m.min_gallop)
    IN  IF nb <= 0 THEN Merged(A \o B, min_gallop)
        ELSE place(IF Len(A) - k <= nb
                   THEN merge_lo(SubSeq(A, k + 1, Len(A)), SubSeq(B, 1, nb), min_gallop, lt)
                   ELSE merge_hi(SubSeq(A, k + 1, Len(A)), SubSeq(B, 1, nb), min_gallop, lt))

\* the items of B that come behind A's last stay where they are
merge_from(A, B, k, min_gallop, lt) ==
    IF k = Len(A) THEN Merged(A \o B, min_gallop)
    ELSE merge_between(A, B, k, gallop_left(Last(A), B, Len(B) - 1, lt), min_gallop, lt)

\* the merge of two neighbouring runs: the items of A that come before B's
\* first stay where they are
merge_runs(A, B, min_gallop, lt) ==
    merge_from(A, B, gallop_right(B[1], A, 0, lt), min_gallop, lt)

\* merge_at: the runs i and i + 1 of the pending runs become one
merge_at(ms, i, lt) ==
    LET p == ms.pending
        replace(m) ==
            [pending |-> SubSeq(p, 1, i - 1)
                            \o <<[base |-> p[i].base, run |-> m.run, power |-> p[i].power]>>
                            \o SubSeq(p, i + 2, Len(p)),
             min_gallop |-> m.min_gallop]
    IN  replace(merge_runs(p[i].run, p[i + 1].run, ms.min_gallop, lt))

\* the loop of powerloop: the number of leading bits that a/n and b/n share,
\* plus one
RECURSIVE powerloop_bits(_, _, _, _)
powerloop_bits(a, b, n, result) ==
    IF a >= n THEN powerloop_bits(2 * (a - n), 2 * (b - n), n, result + 1)
    ELSE IF b >= n THEN result + 1
    ELSE powerloop_bits(2 * a, 2 * b, n, result + 1)

\* powerloop: the power of the boundary between a run of n1 items at s1 and the
\* run of n2 items behind it, in a list of n items
powerloop(s1, n1, n2, n) == powerloop_bits(2 * s1 + n1, 2 * s1 + 2 * n1 + n2, n, 0)

RECURSIVE merge_compute_minrun(_, _)
merge_compute_minrun(n, r) ==
    IF n >= 64 THEN merge_compute_minrun(n \div 2, IF n % 2 = 1 THEN 1 ELSE r)
    ELSE n + r

\* the loop of found_new_run: the runs of a higher power than the new one are merged
RECURSIVE merge_powers(_, _, _)
merge_powers(ms, power, lt) ==
    IF Len(ms.pending) > 1 /\ ms.pending[Len(ms.pending) - 1].power > power
    THEN merge_powers(merge_at(ms, Len(ms.pending) - 1, lt), power, lt)
    ELSE [ms EXCEPT !.pending[Len(ms.pending)].power = power]

\* found_new_run: a run of n2 items follows the pending runs of a list of n items
found_new_run(ms, n2, n, lt) ==
    IF ms.pending = <<>> THEN ms
    ELSE merge_powers(ms, powerloop(Last(ms.pending).base, Len(Last(ms.pending).run), n2, n),
                      lt)

RECURSIVE merge_force_collapse(_, _)
merge_force_collapse(ms, lt) ==
    IF Len(ms.pending) <= 1 THEN ms
    ELSE LET n == Len(ms.pending) - 1
         IN  merge_force_collapse(
                 merge_at(ms, IF n > 1 /\ Len(ms.pending[n - 1].run) < Len(ms.pending[n + 1].run)
                              THEN n - 1 ELSE n, lt), lt)

\* the run at the head of the list: a strictly descending run is reversed
head_run(rest, descending, lt) ==
    LET cut(k) ==
            IF descending THEN reverse_slice(SubSeq(rest, 1, k)) ELSE SubSeq(rest, 1, k)
    IN  cut(IF Len(rest) = 1 THEN 1 ELSE count_run(rest, 2, descending, lt))

\* a run shorter than minrun is lengthened to minrun items by binarysort
forced_run(rest, run, minrun, lt) ==
    IF Len(run) < minrun
    THEN binarysort(run \o SubSeq(rest, Len(run) + 1, Least(Len(rest), minrun)), Len(run), lt)
    ELSE run

\* the next run of the loop of list.sort
next_run(rest, minrun, lt) ==
    forced_run(rest, head_run(rest, Len(rest) > 1 /\ ISLT(rest[2], rest[1], lt), lt),
               minrun, lt)

\* the loop of list.sort: the next run of the rest of the list, which starts at
\* lo, is pushed on the pending runs
RECURSIVE sort_runs(_, _, _, _, _, _)
sort_runs(ms, rest, lo, minrun, n, lt) ==
    IF rest = <<>> THEN merge_force_collapse(ms, lt)
    ELSE LET push(run, m) ==
                 sort_runs([pending |-> Append(m.pending,
                                               [base |-> lo, run |-> run, power |-> 0]),
                            min_gallop |-> m.min_gallop],
                           SubSeq(rest, Len(run) + 1, Len(rest)), lo + Len(run), minrun, n, lt)
         IN  push(next_run(rest, minrun, lt),
                  found_new_run(ms, Len(next_run(rest, minrun, lt)), n, lt))

\* the keys of list.sort(key=...), compared: the table of key(a[x]) < key(a[y])
key_less(a, st) ==
    [x \in 1..Len(a) |-> [y \in 1..Len(a) |->
        FLt(sort_key(a[x], st), sort_key(a[y], st))]]

\* the places 1..n sorted under the comparison lt
sort_places(places, lt) ==
    sort_runs([pending |-> <<>>, min_gallop |-> MIN_GALLOP], places, 0,
              merge_compute_minrun(Len(places), 0), Len(places), lt).pending[1].run

list_sort(a, reverse, st) ==
    LET turned(list) == IF reverse THEN reverse_slice(list) ELSE list
        items(order) == [i \in 1..Len(a) |-> a[order[i]]]
    IN  IF Len(a) < 2 THEN a
        ELSE items(turned(sort_places(turned([i \in 1..Len(a) |-> i]), key_less(a, st))))

\* sorted(items, key=..., reverse=...) with the key of the status
sorted(items, st, reverse) == list_sort(items, reverse, st)

\* items[:k]
first(items, k) == SubSeq(items, 1, IF Len(items) < k THEN Len(items) ELSE k)

\* sorted_data of create_top_parts_chart (nothing is drawn when no part has the status)
create_top_parts_chart(processed, st) ==
    LET filtered_data == filter_status(processed, st)
    IN  IF filtered_data = <<>> THEN <<>>
        ELSE first(sorted(filtered_data, st, TRUE), TopK)

\* the grouping loop of create_vendor_wise_top_parts_chart
RECURSIVE group_by_vendor(_, _, _)
group_by_vendor(filtered, i, vendor_data) ==
    IF i > Len(filtered) THEN vendor_data
    ELSE LET item == filtered[i]
             d1 == IF InDict(vendor_data, item.Vendor) THEN vendor_data
                   ELSE Put(vendor_data, item.Vendor, <<>>)
         IN  group_by_vendor(filtered, i + 1,
                 Put(d1, item.Vendor, Append(Get(d1, item.Vendor), item)))

\* vendor_top_parts of create_vendor_wise_top_parts_chart
create_vendor_wise_top_parts_chart(processed, st) ==
    LET filtered_data == filter_status(processed, st)
        vendor_data == group_by_vendor(filtered_data, 1, empty_dict)
    IN  IF filtered_data = <<>> THEN empty_dict
        ELSE [keys |-> vendor_data.keys,
              vals |-> [j \in 1..Len(vendor_data.keys) |->
                           first(sorted(vendor_data.vals[j], st, TRUE), VendorTopK)]]

-----------------------------------------------------------------------------
(* Inputs.                                                                 *)

\* the tolerance options offered by main
Tolerances == {10, 20, 30, 40, 50}

\* tolerances of process_data, which takes any: those main offers, and one
\* below and one above them
CoreTolerances == Tolerances \cup {7, 55}

\* the parts and vendors of canonical items, which the pipeline only copies
\* and compares, are written as names
Parts == {"AC0303020106", "AA0115120001"}
Description(m) == IF m = "AC0303020106" THEN "FLAT ALUMINIUM PROFILE" ELSE "HVPDU ms"
Vendors == {"Vendor_A", "Unknown"}
Quantities == 0..2
NormQuantities == 0..1
StockValues == 1..2

Item(m, q, r, v, w) ==
    [Material |-> m, Description |-> Description(m), QTY |-> q, RM_IN_QTY |-> r,
     Stock_Value |-> IntOf(v), Vendor |-> w]

\* canonical items with small whole quantities
Items ==
    {Item(m, FloatOf(q), FloatOf(r), v, w) :
        m \in Parts, q \in Quantities, r \in NormQuantities, v \in StockValues, w \in Vendors}

\* canonical items of one part over a wide range of quantities
WideItems ==
    {Item("AC0303020106", FloatOf(q), FloatOf(r), 1, "Vendor_A") :
        q \in 0..MaxWideQty, r \in 0..MaxWideNorm}

SeqsUpTo(S, k) == UNION {[1..j -> S] : j \in 0..k}

\* canonical items of one part at the edges of the quantities: a surplus of 7
\* percent of a norm of 100, whole quantities near a million around a surplus
\* and a shortage of a tenth, and the quantities that a cell 'inf' gives
EdgeItems ==
    {Item("AC0303020106", q, r, 1, "Vendor_A") :
        q \in {FloatOf(107), FloatOf(989999), FloatOf(990000), FloatOf(990001),
                FloatOf(809999), FloatOf(810000), FloatOf(810001), FloatOf(5), PosInf},
        r \in {FloatOf(100), FloatOf(900000), Zero, PosInf}}

\* canonical items of one part with quantities in tenths, as a cell such as
\* '0.6' gives them
TenthItems ==
    {Item("AC0303020106", Fin(q, 10), Fin(r, 10), 1, "Vendor_A") :
        q \in 0..MaxWideQty, r \in 1..MaxWideNorm}

\* arguments of the pure functions: the floats nearest the fractions n/d
Rationals == {Fin(n, d) : n \in -MaxArg..MaxArg, d \in 1..MaxDen}
PositiveRationals == {x \in Rationals : FGt(x, Zero)}

Chars == {ord("1"), ord("5"), ord("."), ord(","), ord("-"), ord(" "), ord("%"), ord("i"), ord("n"), ord("f"), ord("a")}
\* the texts of the documented conversions
ExampleCells == {Text(Str("1,234.50")), Text(Str("15%")), Text(Str("2,500")), Text(Str("abc"))}

\* texts with an exponent, digit-group underscores, whitespace other than the
\* space, and the spellings of inf and nan
NumeralCells ==
    {Text(Str("1e3")),
     Text(Str("1E-2")),
     Text(Str(".5e1")),
     Text(Str("1_5")),
     Text(<<9>> \o Str("15") \o <<9>>),
     Text(Str("15") \o <<10>>),
     Text(<<160>> \o Str("15")),
     Text(Str("INF")),
     Text(Str("Infinity")),
     Text(Str("-infinity")),
     Text(Str("NaN")),
     Text(Str("1e400")),
     Text(Str("-1e-400")),
     Text(Str("1__5")),
     Text(Str("1e")),
     Text(Str("1.5e"))}

\* texts with digits and whitespace beyond ASCII (the Bengali digit five,
\* U+09EB, and the ogham space mark, U+1680), and with long exponents
WideCells ==
    {Text(<<2539>>),
     Text(<<49, 2539, 49>>),
     Text(<<2539, 46, 2539>>),
     Text(<<5760>> \o Str("15") \o <<5760>>),
     Text(Str("1") \o <<5760>> \o Str("5")),
     Text(<<5760>> \o Str("a") \o <<5760>>),
     Text(Str("0.0001e1000001")),
     Text(Str("0.001e-999999999999")),
     Text(Str("10000e-1000000")),
     Text(Str("0.00000000000000000000000000000000000000000001e00000000000000000000046"))}

\* the missing values
Nulls == {None, nan, NA, NaT}

Cells ==
    Nulls \cup {Text(s) : s \in SeqsUpTo(Chars, MaxLen)} \cup ExampleCells \cup NumeralCells
        \cup WideCells

\* header labels of uploaded files; the last has a Kelvin sign (U+212A) for K
Headers ==
    {Str("Part_Number"), Str("Stock_Qty"), Str("Target_Qty"), Str("Supplier"), Str("QTY"), Str("qty"),
     Str("Quantity"), Str("RM IN QTY"), Str("STOC") \o <<8490>> \o Str("_VALUE")}

\* sequences of distinct labels
ColumnLists(k) ==
    {c \in SeqsUpTo(Headers, k) : \A i, j \in 1..Len(c) : i # j => c[i] # c[j]}

FullLayout ==
    <<Str("Material"), Str("QTY"), Str("RM IN QTY"), Str("Vendor"), Str("Value"), Str("Description")>>
RequiredLayout == <<Str("Part_Number"), Str("Stock_Qty"), Str("Target_Qty")>>
NoQuantityLayout == <<Str("Material"), Str("RM IN QTY"), Str("Vendor")>>
Layouts == {FullLayout, RequiredLayout, NoQuantityLayout}

\* the cells tried in a column
CellValues(label) ==
    IF label \in {Str("Material"), Str("Part_Number")}
    THEN {Text(<<>>), Text(Str("NaN")), Text(Str(" A1 ")), Text(Str("B2")), None, nan}
    ELSE IF label \in {Str("QTY"), Str("Stock_Qty")} THEN {Text(Str("2")), Text(Str("-1"))}
    ELSE IF label \in {Str("RM IN QTY"), Str("Target_Qty")} THEN {Text(Str("1")), Text(Str("-1"))}
    ELSE IF label = Str("Vendor") THEN {Text(Str("V1")), Text(Str(" ")), None}
    ELSE IF label = Str("Value") THEN {Text(Str("5")), Text(Str("-5")), Text(Str("inf"))}
    ELSE {Text(Str(" d "))}

\* the text of a column in a row that is accepted as it stands
ValidText(label) ==
    IF label \in {Str("Material"), Str("Part_Number")} THEN Str(" A1 ")
    ELSE IF label \in {Str("QTY"), Str("Stock_Qty")} THEN Str("2")
    ELSE IF label \in {Str("RM IN QTY"), Str("Target_Qty")} THEN Str("1")
    ELSE IF label = Str("Vendor") THEN Str("V1")
    ELSE IF label = Str("Value") THEN Str("5")
    ELSE Str(" d ")

RECURSIVE AllRows(_)
AllRows(columns) ==
    IF columns = <<>> THEN {<<>>}
    ELSE {<<c>> \o r : c \in CellValues(Head(columns)), r \in AllRows(Tail(columns))}

\* the rows that differ from the valid row in at most two cells
RowsOf(columns) ==
    {r \in AllRows(columns) :
        Cardinality({i \in 1..Len(columns) : r[i] # Text(ValidText(columns[i]))}) <= 2}

\* a row with the same text in every column
UniformRow(columns, t) == [i \in 1..Len(columns) |-> Text(t)]

EmptyFrame == [columns |-> <<>>, rows |-> <<>>]

\* processed parts for the ranking: short, excess and within-norms parts of two
\* vendors, some with equal variance
RankItems ==
    {Item("AC0303020106", FloatOf(2), FloatOf(10), 1, "Vendor_A"),
     Item("AA0115120001", FloatOf(5), FloatOf(10), 1, "Vendor_A"),
     Item("AC0303020106", FloatOf(5), FloatOf(10), 1, "Vendor_A"),
     Item("AC0303020106", FloatOf(18), FloatOf(10), 1, "Vendor_A"),
     Item("AA0115120001", FloatOf(15), FloatOf(10), 1, "Unknown"),
     Item("AC0303020106", FloatOf(11), FloatOf(10), 1, "Vendor_A"),
     Item("AA0115120001", FloatOf(9), FloatOf(10), 1, "Unknown")}

\* parts of a zero norm and of a norm of 3: a surplus without norm, an empty
\* stock, and surpluses of a third and of four thirds of the norm
SignItems ==
    {Item("AC0303020106", FloatOf(5), Zero, 1, "Vendor_A"),
     Item("AC0303020106", Zero, FloatOf(3), 1, "Vendor_A"),
     Item("AA0115120001", FloatOf(4), FloatOf(3), 1, "Vendor_A"),
     Item("AA0115120001", FloatOf(7), FloatOf(3), 1, "Unknown")}

\* pairs of excess parts for long lists: equal variance, and different variance
TiedPair ==
    {Item("AC0303020106", FloatOf(18), FloatOf(10), 1, "Vendor_A"),
     Item("AA0115120001", FloatOf(18), FloatOf(10), 1, "Vendor_A")}
RankedPair ==
    {Item("AC0303020106", FloatOf(15), FloatOf(10), 1, "Vendor_A"),
     Item("AA0115120001", FloatOf(18), FloatOf(10), 1, "Vendor_A")}

\* parts of the rows with a cell 'inf', which the standardizer accepts
\* (inf >= 0): an infinite stock, an infinite norm, and both, whose variance
\* is inf - inf = nan
InfItems ==
    {Item("AC0303020106", PosInf, FloatOf(10), 1, "Vendor_A"),
     Item("AA0115120001", FloatOf(5), PosInf, 1, "Vendor_A"),
     Item("AC0303020106", PosInf, PosInf, 1, "Unknown")}

\* short parts of one vendor for the sort with a nan key: two parts of equal
\* variance, a part of nan variance, and a part of a larger shortage
ShortTiedPair ==
    {Item("AC0303020106", FloatOf(5), FloatOf(10), 1, "Vendor_A"),
     Item("AA0115120001", FloatOf(5), FloatOf(10), 1, "Vendor_A")}
NanPart == Item("AC0303020106", PosInf, PosInf, 1, "Vendor_A")
ShortestPart == Item("AC0303020106", FloatOf(2), FloatOf(10), 1, "Vendor_A")

\* lists of tied short parts with the nan part somewhere among them and the
\* shortest part last
NanLists ==
    UNION {{SubSeq(s, 1, k) \o <<NanPart>> \o SubSeq(s, k + 1, Len(s)) \o <<ShortestPart>> :
               k \in 0..Len(s)} :
           s \in SeqsUpTo(ShortTiedPair, MaxNanItems - 2)}


-----------------------------------------------------------------------------
(* State machine.                                                          *)

NoVariance == [percent |-> Zero, value |-> Zero]

IdlePipeline ==
    /\ inventory_data = <<>>
    /\ tolerance = 0
    /\ processed_data = <<>>
    /\ summary_data = empty_summary
    /\ vendor_summary = empty_dict

IdleVariance == qty = Zero /\ rm = Zero /\ variance = NoVariance

IdleStatus == variance_percent = Zero /\ tol = Zero /\ status = ""

IdleConvert == value = None /\ float_result = Return(Zero) /\ int_result = Return(IntZero)

NoResolved ==
    [qty_col |-> NoCol, rm_col |-> NoCol, material_col |-> NoCol, desc_col |-> NoCol,
     value_col |-> NoCol, vendor_col |-> NoCol]

NoChart == [status |-> "", parts |-> <<>>]
NoVendorChart == [status |-> "", parts |-> empty_dict]

IdleIngest ==
    /\ upload = "none"
    /\ df = EmptyFrame
    /\ resolved = NoResolved
    /\ standardized = Return(<<>>)

IdleChart == top_parts = NoChart /\ vendor_top_parts = NoVendorChart

\* main, from the loaded dataset on: process_data, then get_vendor_summary
InitData(lists, tolerances) ==
    /\ pc = "loaded"
    /\ inventory_data \in lists
    /\ tolerance \in tolerances
    /\ processed_data = <<>>
    /\ summary_data = empty_summary
    /\ vendor_summary = empty_dict
    /\ IdleVariance /\ IdleStatus /\ IdleConvert /\ IdleIngest /\ IdleChart

Init == InitData(SeqsUpTo(Items, MaxItems), Tolerances)

\* process_data on one item at a tolerance of the selectbox or another
InitItem == InitData({<<it>> : it \in WideItems \cup TenthItems \cup EdgeItems}, CoreTolerances)

ProcessData ==
    /\ pc = "loaded"
    /\ LET r == process_data(inventory_data, tolerance)
       IN  /\ processed_data' = r.processed_data
           /\ summary_data' = r.summary_data
    /\ pc' = "processed"
    /\ UNCHANGED <<inventory_data, tolerance, vendor_summary>>
    /\ UNCHANGED <<variance_vars, status_vars, convert_vars, ingest_vars, chart_vars>>

GetVendorSummary ==
    /\ pc = "processed"
    /\ vendor_summary' = get_vendor_summary(processed_data)
    /\ pc' = "summarised"
    /\ UNCHANGED <<inventory_data, tolerance, processed_data, summary_data>>
    /\ UNCHANGED <<variance_vars, status_vars, convert_vars, ingest_vars, chart_vars>>

Next == ProcessData \/ GetVendorSummary

Spec == Init /\ [][Next]_vars

SpecItem == InitItem /\ [][Next]_vars

\* a call of calculate_variance on arbitrary arguments
InitVariance ==
    /\ pc = "call"
    /\ qty \in Rationals
    /\ rm \in Rationals
    /\ variance = NoVariance
    /\ IdlePipeline /\ IdleStatus /\ IdleConvert /\ IdleIngest /\ IdleChart

CalculateVariance ==
    /\ pc = "call"
    /\ variance' = calculate_variance(qty, rm)
    /\ pc' = "returned"
    /\ UNCHANGED <<qty, rm, pipeline_vars, status_vars, convert_vars, ingest_vars, chart_vars>>

SpecVariance == InitVariance /\ [][CalculateVariance]_vars

\* a call of determine_status on arbitrary arguments
InitStatus ==
    /\ pc = "call"
    /\ variance_percent \in Rationals
    /\ tol \in PositiveRationals
    /\ status = ""
    /\ IdlePipeline /\ IdleVariance /\ IdleConvert /\ IdleIngest /\ IdleChart

DetermineStatus ==
    /\ pc = "call"
    /\ status' = determine_status(variance_percent, tol)
    /\ pc' = "returned"
    /\ UNCHANGED <<variance_percent, tol, pipeline_vars, variance_vars, convert_vars,
                   ingest_vars, chart_vars>>

SpecStatus == InitStatus /\ [][DetermineStatus]_vars

\* the tolerances one item is classified at: those main offers, and wider ones
ToleranceBand == {FloatOf(t) : t \in Tolerances \cup {100, 200}}

\* the quantities that are no numbers: a cell 'inf' gives inf
NonFinite == {PosInf, NegInf, NaN}

\* one item classified as process_data classifies it, and classified again as
\* the re-run of main does after another tolerance is selected
InitRetune ==
    /\ pc = "call"
    /\ qty \in Rationals \cup NonFinite
    /\ rm \in Rationals \cup NonFinite
    /\ tol \in ToleranceBand
    /\ variance = NoVariance
    /\ variance_percent = Zero
    /\ status = ""
    /\ IdlePipeline /\ IdleConvert /\ IdleIngest /\ IdleChart

Classify ==
    /\ pc = "call"
    /\ variance' = calculate_variance(qty, rm)
    /\ variance_percent' = variance'.percent
    /\ status' = determine_status(variance'.percent, tol)
    /\ pc' = "returned"
    /\ UNCHANGED <<qty, rm, tol, pipeline_vars, convert_vars, ingest_vars, chart_vars>>

Retune ==
    /\ pc \in {"returned", "retuned"}
    /\ \E t \in ToleranceBand :
          /\ tol' = t
          /\ variance' = calculate_variance(qty, rm)
          /\ variance_percent' = variance'.percent
          /\ status' = determine_status(variance'.percent, t)
    /\ pc' = "retuned"
    /\ UNCHANGED <<qty, rm, pipeline_vars, convert_vars, ingest_vars, chart_vars>>

NextRetune == Classify \/ Retune

SpecRetune == InitRetune /\ [][NextRetune]_vars

\* a call of each conversion on the same cell value
InitConvert ==
    /\ pc = "call"
    /\ value \in Cells
    /\ float_result = Return(Zero)
    /\ int_result = Return(IntZero)
    /\ IdlePipeline /\ IdleVariance /\ IdleStatus /\ IdleIngest /\ IdleChart

SafeFloatConvert ==
    /\ pc = "call"
    /\ float_result' = safe_float_convert(value)
    /\ pc' = "float_returned"
    /\ UNCHANGED <<value, int_result, pipeline_vars, variance_vars, status_vars,
                   ingest_vars, chart_vars>>

SafeIntConvert ==
    /\ pc = "float_returned"
    /\ int_result' = safe_int_convert(value)
    /\ pc' = "returned"
    /\ UNCHANGED <<value, float_result, pipeline_vars, variance_vars, status_vars,
                   ingest_vars, chart_vars>>

NextConvert == SafeFloatConvert \/ SafeIntConvert

SpecConvert == InitConvert /\ [][NextConvert]_vars


\* a call of standardize_inventory_data on a data frame
InitFrame(frame) ==
    /\ pc = "frame"
    /\ upload = "file"
    /\ df = frame
    /\ resolved = NoResolved
    /\ standardized = Return(<<>>)
    /\ IdlePipeline /\ IdleVariance /\ IdleStatus /\ IdleConvert /\ IdleChart

InitResolve ==
    \E c \in ColumnLists(MaxCols) :
        \E r \in {<<>>, <<UniformRow(c, Str("1"))>>} :
            InitFrame([columns |-> c, rows |-> r])

InitStandardize ==
    \E l \in Layouts : \E k \in 0..MaxRows : \E r \in [1..k -> RowsOf(l)] :
        InitFrame([columns |-> l, rows |-> r])

StandardizeInventoryData ==
    /\ pc = "frame"
    /\ resolved' = IF df.columns = <<>> \/ df.rows = <<>> THEN NoResolved
                   ELSE resolve_columns(df.columns)
    /\ standardized' = standardize_inventory_data(df)
    /\ pc' = "standardized"
    /\ UNCHANGED <<upload, df, pipeline_vars, variance_vars, status_vars, convert_vars,
                   chart_vars>>

SpecResolve == InitResolve /\ [][StandardizeInventoryData]_vars

SpecStandardize == InitStandardize /\ [][StandardizeInventoryData]_vars

\* main from its start: the upload outcome is no file, a file whose reading
\* raises, or a file read into a data frame
InitMain ==
    /\ pc = "start"
    /\ \/ upload \in {"none", "error"} /\ df = EmptyFrame
       \/ /\ upload = "file"
          /\ \E l \in Layouts : \E k \in 0..MaxMainRows : \E r \in [1..k -> RowsOf(l)] :
                df = [columns |-> l, rows |-> r]
    /\ resolved = NoResolved
    /\ standardized = Return(<<>>)
    /\ inventory_data = <<>>
    /\ tolerance \in Tolerances
    /\ processed_data = <<>>
    /\ summary_data = empty_summary
    /\ vendor_summary = empty_dict
    /\ IdleVariance /\ IdleStatus /\ IdleConvert /\ IdleChart

LoadData ==
    /\ pc = "start"
    /\ \E o \in {main_load(upload, df)} :
          /\ inventory_data' = o.ret
          /\ pc' = IF o.raised # "" THEN "crashed" ELSE "loaded"
    /\ UNCHANGED <<tolerance, processed_data, summary_data, vendor_summary>>
    /\ UNCHANGED <<variance_vars, status_vars, convert_vars, ingest_vars, chart_vars>>

NextMain == LoadData \/ ProcessData

SpecMain == InitMain /\ [][NextMain]_vars

\* the charts of the processed list; tolerance 0, which main does not offer, is
\* the smallest process_data classifies with
InitRank ==
    \/ InitData(SeqsUpTo(RankItems, MaxRankItems), Tolerances)
    \/ InitData(SeqsUpTo(SignItems, MaxSignItems), Tolerances \cup {0})
    \/ InitData(SeqsUpTo(InfItems, MaxInfItems), Tolerances \cup {0})
    \/ InitData(SeqsUpTo(TiedPair, MaxLongItems), {30})
    \/ InitData(SeqsUpTo(RankedPair, MaxLongItems), {30})
    \/ InitData(NanLists, {30})

\* main draws the charts that are ticked, each on the same processed_data: the
\* top parts of the excess, the short and the normal parts in this order, and
\* after them the vendor-wise charts in the same order
ChartOrder == <<Excess, Short, WithinNorms>>

\* the place in ChartOrder of the chart drawn last, 0 before the first
ChartPlace(chart) ==
    IF chart.status = "" THEN 0
    ELSE CHOOSE k \in 1..Len(ChartOrder) : ChartOrder[k] = chart.status

CreateTopPartsChart ==
    /\ pc \in {"summarised", "top_chart"}
    /\ \E k \in 1..Len(ChartOrder) :
          /\ k > ChartPlace(top_parts)
          /\ top_parts' = [status |-> ChartOrder[k],
                           parts |-> create_top_parts_chart(processed_data, ChartOrder[k])]
    /\ pc' = "top_chart"
    /\ UNCHANGED <<vendor_top_parts, pipeline_vars, variance_vars, status_vars,
                   convert_vars, ingest_vars>>

CreateVendorWiseTopPartsChart ==
    /\ pc \in {"summarised", "top_chart", "vendor_chart"}
    /\ \E k \in 1..Len(ChartOrder) :
          /\ k > ChartPlace(vendor_top_parts)
          /\ vendor_top_parts' =
                 [status |-> ChartOrder[k],
                  parts |-> create_vendor_wise_top_parts_chart(processed_data, ChartOrder[k])]
    /\ pc' = "vendor_chart"
    /\ UNCHANGED <<top_parts, pipeline_vars, variance_vars, status_vars,
                   convert_vars, ingest_vars>>

NextRank ==
    ProcessData \/ GetVendorSummary \/ CreateTopPartsChart \/ CreateVendorWiseTopPartsChart

SpecRank == InitRank /\ [][NextRank]_vars

-----------------------------------------------------------------------------
(* Properties.                                                             *)

RECURSIVE SumOver(_, _)
SumOver(S, f) ==
    IF S = {} THEN 0
    ELSE LET x == CHOOSE y \in S : TRUE IN f[x] + SumOver(S \ {x}, f)

\* the sum of Python ints
RECURSIVE IntSumOver(_, _)
IntSumOver(S, f) ==
    IF S = {} THEN IntZero
    ELSE LET x == CHOOSE y \in S : TRUE IN IntAdd(f[x], IntSumOver(S \ {x}, f))

\* the float sum of f over the positions S of a list, taken in list order from 0
RECURSIVE FSumInOrder(_, _)
FSumInOrder(S, f) ==
    IF S = {} THEN Zero
    ELSE LET x == CHOOSE y \in S : \A z \in S : z <= y
         IN  FAdd(FSumInOrder(S \ {x}, f), f[x])

\* Exact values.  A finite float a is the whole number Scaled(a, e) times 2^e
\* for every e <= a.exp, so sums and products of finite floats are compared
\* without rounding as whole numbers over a common power of two.
Scaled(a, e) == SignedNat(a.neg, NatShl(a.mant, IF a.mant = <<>> THEN 0 ELSE a.exp - e))
IntShl(a, n) == SignedNat(a.neg, NatShl(a.mag, n))
IntMul(a, b) == SignedNat(a.neg # b.neg, NatMul(a.mag, b.mag))
IntSub(a, b) == IntAdd(a, IntNeg(b))
IntAbs(a) == [a EXCEPT !.neg = FALSE]

Indices(seq) == 1..Len(seq)

\* C1: for every tolerance t > 0 and every percent p, determine_status(p, t)
\* is one of the three statuses, and it is Within Norms iff |p| <= t, Excess
\* Inventory iff p > t, Short Inventory iff p < -t.
C1_StatusTrichotomy ==
    pc = "returned" =>
        LET p == variance_percent
            t == tol
            e == Least(p.exp, t.exp)
            P == Scaled(p, e)
            T == Scaled(t, e)
        IN  /\ status \in Statuses
            /\ status = WithinNorms <=> IntLe(IntAbs(P), T)
            /\ status = Excess <=> IntLt(T, P)
            /\ status = Short <=> IntLt(P, IntNeg(T))

\* a percent exactly on the tolerance band, classified
C1_Witness ==
    /\ pc = "returned"
    /\ FLt(variance_percent, Zero)
    /\ FAbs(variance_percent) = tol
    /\ status = WithinNorms

\* C2: every processed item has Variance_Value = Quantity - NormQuantity,
\* also when NormQuantity is 0.
C2_VarianceValueExact ==
    pc # "loaded" =>
        \A i \in Indices(processed_data) :
            LET q == inventory_data[i].QTY
                r == inventory_data[i].RM_IN_QTY
                v == processed_data[i].Variance_Value
            IN  FEq(v, FSub(q, r))

\* C3 as stated: for norm # 0, calculate_variance(qty, norm) returns
\* value = qty - norm and percent = (qty - norm) / norm * 100, equivalently
\* percent * norm = (qty - norm) * 100.
C3_VarianceOfNonZeroNorm ==
    (pc = "returned" /\ ~FEq(rm, Zero)) =>
        /\ FEq(variance.value, FSub(qty, rm))
        /\ FEq(variance.percent, FMul(FDiv(FSub(qty, rm), rm), FloatOf(100)))
        /\ FEq(FMul(variance.percent, rm), FMul(FSub(qty, rm), FloatOf(100)))

\* |x - y| <= |y| / 10^9 for the exact numbers x = a * 2^ea and y = b * 2^eb
WithinRounding(a, ea, b, eb) ==
    LET e == Least(ea, eb)
        x == IntShl(a, ea - e)
        y == IntShl(b, eb - e)
    IN  IntLe(IntMul(IntOf(10^9), IntAbs(IntSub(x, y))), IntAbs(y))

\* C3 (amended): for norm # 0, calculate_variance(qty, norm) returns the
\* floats value = qty - norm and percent = (qty - norm) / norm * 100, each
\* operation rounded; percent * norm and value * 100, taken exactly, differ by
\* no more than a 10^9-th of the latter.
C3_VarianceWithinRounding ==
    (pc = "returned" /\ ~FEq(rm, Zero)) =>
        LET v == variance.value
            p == variance.percent
        IN  /\ FEq(v, FSub(qty, rm))
            /\ FEq(p, FMul(FDiv(FSub(qty, rm), rm), FloatOf(100)))
            /\ WithinRounding(IntMul(Scaled(p, p.exp), Scaled(rm, rm.exp)), p.exp + rm.exp,
                              IntMul(Scaled(v, v.exp), IntOf(100)), v.exp)

\* a surplus of a third of the norm: the percent is 33.33333333333333 and
\* three times it is not 100
C3_Witness ==
    /\ pc = "returned"
    /\ qty = FloatOf(4)
    /\ rm = FloatOf(3)
    /\ variance.value = FloatOf(1)
    /\ FLt(variance.percent, Fin(100, 3))
    /\ ~FEq(FMul(variance.percent, rm), FloatOf(100))

\* (Quantity - NormQuantity) * 100 against t * NormQuantity, taken exactly,
\* for a norm quantity > 0 and finite quantities: the status the comparison gives
CrossProductStatus(q, r, t) ==
    LET e == Least(q.exp, r.exp)
        Q == Scaled(q, e)
        R == Scaled(r, e)
        diff == IntMul(IntSub(Q, R), IntOf(100))
        band == IntMul(IntOf(t), R)
    IN  IF IntLt(band, diff) THEN Excess
        ELSE IF IntLt(band, IntNeg(diff)) THEN Short
        ELSE WithinNorms

IsWhole(a) == IsFinite(a) /\ a.exp >= 0

\* a whole number from 0 to a million
IsSmallWhole(a) == IsWhole(a) /\ FGe(a, Zero) /\ FLe(a, FloatOf(1000000))

ExampleStatuses(q, r, t, st) ==
    /\ (t = 30 /\ q = FloatOf(28) /\ r = FloatOf(20)) => st = Excess
    /\ (t = 30 /\ q = FloatOf(8) /\ r = FloatOf(12)) => st = Short
    /\ (t = 30 /\ q = FloatOf(22) /\ r = FloatOf(20)) => st = WithinNorms

\* C4 as stated: for NormQuantity > 0 process_data assigns Excess Inventory iff
\* (Quantity - NormQuantity) * 100 > t * NormQuantity, Short Inventory iff
\* (NormQuantity - Quantity) * 100 > t * NormQuantity, Within Norms otherwise;
\* at t = 30, (28, 20) is Excess, (8, 12) is Short, (22, 20) is Within Norms.
\* (The products are taken for the items whose quantities are numbers.)
C4_StatusByCrossProduct ==
    pc # "loaded" =>
        \A i \in Indices(processed_data) :
            LET q == inventory_data[i].QTY
                r == inventory_data[i].RM_IN_QTY
                st == processed_data[i].Status
            IN  FGt(r, Zero) /\ IsFinite(q) /\ IsFinite(r) =>
                  /\ st = CrossProductStatus(q, r, tolerance)
                  /\ ExampleStatuses(q, r, tolerance, st)

\* C4 (amended): for NormQuantity > 0 and every tolerance t > 0 process_data
\* assigns Excess Inventory iff the computed Variance_% = (Quantity -
\* NormQuantity) / NormQuantity * 100 is > t, Short Inventory iff it is < -t or
\* is nan (as it is when NormQuantity is inf), Within Norms otherwise; for whole
\* quantities and norms up to 1,000,000 at the tolerances 10, 20, 30, 40 and 50
\* this is the status of the cross products (Quantity - NormQuantity) * 100 > t
\* * NormQuantity and (NormQuantity - Quantity) * 100 > t * NormQuantity; at
\* t = 30, (28, 20) is Excess, (8, 12) is Short, (22, 20) is Within Norms.
C4_StatusByComputedPercent ==
    pc # "loaded" =>
        \A i \in Indices(processed_data) :
            LET q == inventory_data[i].QTY
                r == inventory_data[i].RM_IN_QTY
                st == processed_data[i].Status
                p == processed_data[i].Variance_pct
                t == FloatOf(tolerance)
            IN  FGt(r, Zero) =>
                  /\ p = FMul(FDiv(FSub(q, r), r), FloatOf(100))
                  /\ st = Excess <=> FGt(p, t)
                  /\ st = Short <=> (FLt(p, FNeg(t)) \/ IsNaN(p))
                  /\ st = WithinNorms <=> (FLe(p, t) /\ FGe(p, FNeg(t)))
                  /\ IsInf(r) => IsNaN(p)
                  /\ (IsSmallWhole(q) /\ IsSmallWhole(r) /\ tolerance \in Tolerances) =>
                        st = CrossProductStatus(q, r, tolerance)
                  /\ ExampleStatuses(q, r, tolerance, st)

\* the item (0.6, 1.0) processed at tolerance 40: the stored quantity is just
\* below 6/10 and the computed percent is -40.0
C4_Witness ==
    /\ pc = "processed"
    /\ tolerance = 40
    /\ Len(processed_data) = 1
    /\ processed_data[1].QTY = Fin(6, 10)
    /\ processed_data[1].RM_IN_QTY = FloatOf(1)
    /\ processed_data[1].Variance_pct = FloatOf(-40)
    /\ processed_data[1].Status = WithinNorms
    /\ CrossProductStatus(processed_data[1].QTY, processed_data[1].RM_IN_QTY, 40) = Short

\* C5: process_data returns one processed item per input item, in input
\* order, carrying the input item's Material, Description, QTY, RM IN QTY,
\* Stock_Value and Vendor.
C5_OrderPreserved ==
    pc # "loaded" =>
        /\ Len(processed_data) = Len(inventory_data)
        /\ \A i \in Indices(inventory_data) :
              /\ processed_data[i].Material = inventory_data[i].Material
              /\ processed_data[i].Description = inventory_data[i].Description
              /\ processed_data[i].QTY = inventory_data[i].QTY
              /\ processed_data[i].RM_IN_QTY = inventory_data[i].RM_IN_QTY
              /\ processed_data[i].Stock_Value = inventory_data[i].Stock_Value
              /\ processed_data[i].Vendor = inventory_data[i].Vendor

\* two items that differ in every carried field, processed
C5_Witness ==
    /\ pc = "processed"
    /\ Len(inventory_data) = 2
    /\ inventory_data[1].Material # inventory_data[2].Material
    /\ inventory_data[1].QTY # inventory_data[2].QTY
    /\ inventory_data[1].RM_IN_QTY # inventory_data[2].RM_IN_QTY
    /\ inventory_data[1].Stock_Value # inventory_data[2].Stock_Value
    /\ inventory_data[1].Vendor # inventory_data[2].Vendor
    /\ Len(processed_data) = 2

\* C6: the three status counts of the summary sum to the number of processed
\* items, and each equals the number of processed items of that status.
C6_SummaryCounts ==
    pc # "loaded" =>
        /\ SumOver(Statuses, [s \in Statuses |-> summary_data[s].count])
              = Len(processed_data)
        /\ \A s \in Statuses :
              summary_data[s].count
                  = Cardinality({i \in Indices(processed_data) : processed_data[i].Status = s})

\* two processed items of different statuses whose stock values are not 1
C6_Witness ==
    /\ pc = "processed"
    /\ Len(processed_data) = 2
    /\ processed_data[1].Status = Short
    /\ processed_data[2].Status = Excess
    /\ processed_data[1].Stock_Value = IntOf(2)
    /\ summary_data[Short].count = 1

VendorKeys == {vendor_summary.keys[i] : i \in Indices(vendor_summary.keys)}

ItemsOf(v) == {i \in Indices(processed_data) : processed_data[i].Vendor = v}

ItemsOfStatus(v, s) == {i \in ItemsOf(v) : processed_data[i].Status = s}

\* C7: per vendor short_parts + excess_parts + normal_parts = total_parts,
\* and the total_parts of all vendors sum to the number of processed items.
C7_VendorPartsPartition ==
    pc = "summarised" =>
        /\ \A v \in VendorKeys :
              LET a == Get(vendor_summary, v)
              IN  a.short_parts + a.excess_parts + a.normal_parts = a.total_parts
        /\ SumOver(VendorKeys, [v \in VendorKeys |-> Get(vendor_summary, v).total_parts])
              = Len(processed_data)

\* two vendors, one with a part within norms, summarised
C7_Witness ==
    /\ pc = "summarised"
    /\ Len(vendor_summary.keys) = 2
    /\ \E v \in VendorKeys : Get(vendor_summary, v).normal_parts = 1
    /\ \E v \in VendorKeys : Get(vendor_summary, v).short_parts = 1

\* C8: for every vendor v the summary gives total_parts = number of items of
\* v, total_qty, total_rm and total_value = the sums of their QTY, RM IN QTY
\* and Stock_Value, and per status the count and summed Stock_Value of v's
\* items of that status.
C8_VendorTotals ==
    pc = "summarised" =>
        \A v \in {processed_data[i].Vendor : i \in Indices(processed_data)} :
            LET a == Get(vendor_summary, v)
                value_of == [i \in Indices(processed_data) |-> processed_data[i].Stock_Value]
            IN  /\ InDict(vendor_summary, v)
                /\ a.total_parts = Cardinality(ItemsOf(v))
                /\ a.total_qty = FSumInOrder(ItemsOf(v),
                       [i \in Indices(processed_data) |-> processed_data[i].QTY])
                /\ a.total_rm = FSumInOrder(ItemsOf(v),
                       [i \in Indices(processed_data) |-> processed_data[i].RM_IN_QTY])
                /\ a.total_value = IntSumOver(ItemsOf(v), value_of)
                /\ a.short_parts = Cardinality(ItemsOfStatus(v, Short))
                /\ a.excess_parts = Cardinality(ItemsOfStatus(v, Excess))
                /\ a.normal_parts = Cardinality(ItemsOfStatus(v, WithinNorms))
                /\ a.short_value = IntSumOver(ItemsOfStatus(v, Short), value_of)
                /\ a.excess_value = IntSumOver(ItemsOfStatus(v, Excess), value_of)
                /\ a.normal_value = IntSumOver(ItemsOfStatus(v, WithinNorms), value_of)

\* one vendor with two parts of different statuses, summarised
C8_Witness ==
    /\ pc = "summarised"
    /\ Len(processed_data) = 2
    /\ processed_data[1].Vendor = processed_data[2].Vendor
    /\ processed_data[1].Status = Excess
    /\ processed_data[2].Status = Short
    /\ Get(vendor_summary, processed_data[1].Vendor).total_parts = 2

\* C9: safe_float_convert and safe_int_convert return a number for every
\* input value and never raise.
C9_ConversionsTotal ==
    /\ pc \in {"float_returned", "returned"} => float_result.raised = ""
    /\ pc = "returned" => int_result.raised = ""

\* C10: for every text with a finite safe_float_convert, safe_int_convert
\* returns the truncation toward zero of safe_float_convert.
C10_IntIsTruncatedFloat ==
    (pc = "returned" /\ float_result.raised = "" /\ IsFinite(float_result.ret)) =>
        int_result = Return(Trunc(float_result.ret))

\* the number a text denotes, 0.0 when it denotes none
NumericValue(text) ==
    LET o == float_of_text(text) IN IF o.raised = "" THEN o.ret ELSE Zero

DropTrailingPercent(text) ==
    IF text # <<>> /\ text[Len(text)] = ord("%") THEN SubSeq(text, 1, Len(text) - 1) ELSE text

\* C11 as stated: safe_float_convert returns the numeric value of the text
\* after trimming whitespace, removing every comma and removing one trailing
\* percent sign, and 0.0 for null, empty or unparsable text.
C11_TrimCommaPercent ==
    pc \in {"float_returned", "returned"} =>
        float_result =
            Return(IF value.null THEN Zero
                   ELSE NumericValue(DropTrailingPercent(
                            SelectSeq(strip(value.text), LAMBDA c : c # ord(",")))))

\* C11 (amended): safe_float_convert returns the numeric value of the text
\* after trimming whitespace, removing every comma and every space, and
\* removing one trailing percent sign (inf, -inf and nan are numeric values),
\* and 0.0 for null, empty or unparsable text; '1,234.50' gives 1234.5, '15%'
\* gives 15.0, '' and None give 0.0; safe_int_convert gives 2500 for '2,500'
\* and 0 for 'abc'.
C11_FloatOfNormalisedText ==
    /\ pc \in {"float_returned", "returned"} =>
          /\ float_result =
                Return(IF value.null THEN Zero
                       ELSE NumericValue(DropTrailingPercent(
                                SelectSeq(strip(value.text), LAMBDA c : c \notin {ord(","), ord(" ")}))))
          /\ value = Text(Str("1,234.50")) => float_result = Return(Fin(2469, 2))
          /\ value = Text(Str("15%")) => float_result = Return(FloatOf(15))
          /\ value \in {Text(<<>>), None} => float_result = Return(Zero)
    /\ pc = "returned" =>
          /\ value = Text(Str("2,500")) => int_result = Return(IntOf(2500))
          /\ value = Text(Str("abc")) => int_result = Return(IntZero)

C11_Witness ==
    /\ pc = "returned"
    /\ value = Text(Str("1,234.50"))
    /\ float_result = Return(Fin(2469, 2))
    /\ int_result = Return(IntOf(1234))

Fields == {"qty_col", "rm_col", "material_col", "desc_col", "value_col", "vendor_col"}

Synonyms(field) ==
    CASE field = "qty_col" -> qty_columns
      [] field = "rm_col" -> rm_columns
      [] field = "material_col" -> material_columns
      [] field = "desc_col" -> desc_columns
      [] field = "value_col" -> value_columns
      [] field = "vendor_col" -> vendor_columns

\* a header lower-cased, its spaces replaced by underscore
Normalized(header) == replace_char(lower(header), ord(" "), ord("_"))

\* positions of the field's synonyms that are the normalized form of some header
PresentSynonyms(field, columns) ==
    {i \in 1..Len(Synonyms(field)) :
        \E j \in 1..Len(columns) : Normalized(columns[j]) = Synonyms(field)[i]}

\* the field resolves to a header whose normalized form is the earliest present
\* synonym, and to nothing when no synonym is present
ResolvesEarliest(field, columns, col) ==
    IF PresentSynonyms(field, columns) = {} THEN col = NoCol
    ELSE LET i == CHOOSE k \in PresentSynonyms(field, columns) :
                      \A l \in PresentSynonyms(field, columns) : k <= l
         IN  \E j \in 1..Len(columns) :
                /\ col = columns[j]
                /\ Normalized(col) = Synonyms(field)[i]

\* of the headers with the normalized form of col, col is the last one
LastOfItsForm(columns, col) ==
    col # NoCol =>
        \E j \in 1..Len(columns) :
            /\ col = columns[j]
            /\ \A l \in 1..Len(columns) : Normalized(columns[l]) = Normalized(col) => l <= j

Reorderings(columns) ==
    {[i \in 1..Len(columns) |-> columns[p[i]]] :
        p \in {q \in [1..Len(columns) -> 1..Len(columns)] :
                  \A a, b \in 1..Len(columns) : a # b => q[a] # q[b]}}

DistinctForms(columns) ==
    \A a, b \in 1..Len(columns) : a # b => Normalized(columns[a]) # Normalized(columns[b])

ExampleHeaders == <<Str("Part_Number"), Str("Stock_Qty"), Str("Target_Qty"), Str("Supplier")>>

\* C12 as stated: each field resolves to the header whose normalized form is
\* the earliest synonym of the field present among the normalized headers,
\* independent of the order of the columns.
C12_ResolveOrderIndependent ==
    (pc = "standardized" /\ resolved # NoResolved) =>
        /\ \A f \in Fields : ResolvesEarliest(f, df.columns, resolved[f])
        /\ \A c \in Reorderings(df.columns) : resolve_columns(c) = resolved

\* C12 (amended): each field resolves to a header whose normalized form is the
\* earliest synonym of the field present among the normalized headers; when
\* several headers share that normalized form the last of them in column
\* order is taken, and when no two headers share a normalized form the
\* resolution is independent of the order of the columns; headers Part_Number,
\* Stock_Qty, Target_Qty, Supplier resolve identifier, quantity, norm, vendor.
C12_ResolveEarliestSynonym ==
    (pc = "standardized" /\ resolved # NoResolved) =>
        /\ \A f \in Fields :
              /\ ResolvesEarliest(f, df.columns, resolved[f])
              /\ LastOfItsForm(df.columns, resolved[f])
        /\ DistinctForms(df.columns) =>
              \A c \in Reorderings(df.columns) : resolve_columns(c) = resolved
        /\ df.columns \in Reorderings(ExampleHeaders) =>
              /\ resolved.material_col = Str("Part_Number")
              /\ resolved.qty_col = Str("Stock_Qty")
              /\ resolved.rm_col = Str("Target_Qty")
              /\ resolved.vendor_col = Str("Supplier")

C12_Witness ==
    /\ pc = "standardized"
    /\ df.columns = <<Str("qty"), Str("Stock_Qty"), Str("QTY"), Str("Supplier")>>
    /\ resolved # NoResolved
    /\ resolved.qty_col = Str("QTY")
    /\ resolved.vendor_col = Str("Supplier")

RequiredFields == {"qty_col", "rm_col", "material_col"}

\* C13: if any of the quantity, norm-quantity or identifier columns cannot be
\* resolved, standardize_inventory_data returns an empty list without raising,
\* whatever rows the dataset contains and whether or not the optional columns
\* resolve.
C13_MissingRequiredColumn ==
    (/\ pc = "standardized"
     /\ \E f \in RequiredFields : PresentSynonyms(f, df.columns) = {})
        => standardized = Return(<<>>)

C13_Witness ==
    /\ pc = "standardized"
    /\ df.columns = <<Str("Part_Number"), Str("Stock_Qty"), Str("Supplier")>>
    /\ df.rows # <<>>
    /\ PresentSynonyms("rm_col", df.columns) = {}
    /\ PresentSynonyms("vendor_col", df.columns) # {}
    /\ standardized = Return(<<>>)

\* the frame has rows and its three required columns resolve
RowsAreRead(frame) ==
    /\ frame.columns # <<>> /\ frame.rows # <<>>
    /\ \A f \in RequiredFields : PresentSynonyms(f, frame.columns) # {}

\* the cell of a row under the header the field resolves to
FieldCell(frame, row, field) ==
    cell_of(frame, row, resolve_columns(frame.columns)[field])

TrimmedText(cell) == strip(str(cell))

\* the acceptance rule: identifier non-empty and not 'nan' in any case, coerced
\* quantity and norm quantity both >= 0
Acceptable(frame, row) ==
    /\ TrimmedText(FieldCell(frame, row, "material_col")) # <<>>
    /\ lower(TrimmedText(FieldCell(frame, row, "material_col"))) # Str("nan")
    /\ FGe(safe_float_convert(FieldCell(frame, row, "qty_col")).ret, Zero)
    /\ FGe(safe_float_convert(FieldCell(frame, row, "rm_col")).ret, Zero)

\* C14: a row is accepted by standardize_inventory_data if and only if its
\* trimmed identifier is non-empty and not case-insensitively equal to 'nan'
\* and its coerced quantity and norm quantity are both >= 0.
C14_AcceptedIffValid ==
    (pc = "standardized" /\ RowsAreRead(df)) =>
        LET accepted == SelectSeq(df.rows, LAMBDA row : Acceptable(df, row))
        IN  /\ Len(standardized.ret) = Len(accepted)
            /\ \A i \in 1..Len(accepted) :
                  standardized.ret[i].Material =
                      TrimmedText(FieldCell(df, accepted[i], "material_col"))

\* C15: for every accepted row the item's Vendor is the trimmed text of the
\* resolved vendor column, or 'Unknown' if the vendor column was unresolved or
\* the trimmed vendor text is empty; no accepted item has an empty Vendor.
C15_VendorOrUnknown ==
    (pc = "standardized" /\ RowsAreRead(df)) =>
        \A i \in 1..Len(standardized.ret) :
            /\ standardized.ret[i].Vendor # <<>>
            /\ \/ standardized.ret[i].Vendor = Unknown
               \/ /\ PresentSynonyms("vendor_col", df.columns) # {}
                  /\ \E j \in 1..Len(df.rows) :
                        standardized.ret[i].Vendor =
                            TrimmedText(FieldCell(df, df.rows[j], "vendor_col"))

\* C16: every item returned by standardize_inventory_data has a non-empty
\* Material, QTY >= 0, RM IN QTY >= 0 and an integer Stock_Value >= 0 (0 when
\* the value column is unresolved).
C16_CanonicalItem ==
    pc = "standardized" =>
        \A i \in 1..Len(standardized.ret) :
            /\ standardized.ret[i].Material # <<>>
            /\ FGe(standardized.ret[i].QTY, Zero)
            /\ FGe(standardized.ret[i].RM_IN_QTY, Zero)
            /\ IntLe(IntZero, standardized.ret[i].Stock_Value)
            /\ PresentSynonyms("value_col", df.columns) = {} =>
                  standardized.ret[i].Stock_Value = IntZero

\* the items of the frame that has this row alone; none when the row is
\* rejected or its construction raises
AloneItems(frame, row) ==
    standardize_inventory_data([columns |-> frame.columns, rows |-> <<row>>]).ret

RECURSIVE RowByRow(_, _)
RowByRow(frame, i) ==
    IF i > Len(frame.rows) THEN <<>>
    ELSE AloneItems(frame, frame.rows[i]) \o RowByRow(frame, i + 1)

\* C17: a row whose construction raises is skipped and every later row is
\* still processed; the returned list is the subsequence of accepted rows in
\* original row order, so one bad row never changes which other rows are
\* accepted or their relative order.
C17_ContinueOnError ==
    pc = "standardized" =>
        /\ standardized.raised = ""
        /\ standardized.ret = RowByRow(df, 1)

C17_Witness ==
    /\ pc = "standardized"
    /\ df.columns = FullLayout
    /\ Len(df.rows) = 2
    /\ row_items(df, df.rows[1], resolve_columns(df.columns)).raised = "OverflowError"
    /\ Len(standardized.ret) = 1
    /\ standardized.ret[1].Material = TrimmedText(FieldCell(df, df.rows[2], "material_col"))

\* the key of a status: abs(Variance_Value) for Short Inventory, the signed
\* Variance_Value for Excess Inventory and Within Norms
RankKey(item, st) ==
    IF st = Short
    THEN (IF FLt(item.Variance_Value, Zero) THEN FNeg(item.Variance_Value)
          ELSE item.Variance_Value)
    ELSE item.Variance_Value

Occurrences(items, x) == Cardinality({i \in 1..Len(items) : items[i] = x})

Smaller(a, b) == IF a < b THEN a ELSE b

\* selected is a choice of the k highest items of pool under the key of st: no
\* item comes before one of a strictly larger key, and no item left out has a
\* strictly larger key than a selected one
IsTopSelection(selected, pool, st, k) ==
    /\ Len(selected) = Smaller(k, Len(pool))
    /\ \A i \in 1..Len(selected) :
          /\ selected[i].Status = st
          /\ Occurrences(selected, selected[i]) <= Occurrences(pool, selected[i])
    /\ \A i, j \in 1..Len(selected) :
          i < j => ~FLt(RankKey(selected[i], st), RankKey(selected[j], st))
    /\ \A p \in 1..Len(pool) :
          Occurrences(selected, pool[p]) < Occurrences(pool, pool[p]) =>
              \A i \in 1..Len(selected) :
                  ~FGt(RankKey(pool[p], st), RankKey(selected[i], st))

OfStatus(items, st) == SelectSeq(items, LAMBDA item : item.Status = st)

OfVendor(items, vendor) == SelectSeq(items, LAMBDA item : item.Vendor = vendor)

\* C18: top-K selection for a target status returns only items of that
\* status, at most K of them (K = 10 globally, K = 3 per vendor), the K highest
\* under the status's key (abs(Variance_Value) descending for Short Inventory,
\* signed Variance_Value descending otherwise); no unselected item of that
\* status (and vendor) has a strictly larger key than a selected one.
C18_TopKHighest ==
    /\ pc = "top_chart" =>
          IsTopSelection(top_parts.parts, OfStatus(processed_data, top_parts.status),
                         top_parts.status, 10)
    /\ pc = "vendor_chart" =>
          LET st == vendor_top_parts.status
              chart == vendor_top_parts.parts
          IN  /\ \A i \in 1..Len(processed_data) :
                    processed_data[i].Status = st =>
                        \E j \in 1..Len(chart.keys) :
                            chart.keys[j] = processed_data[i].Vendor
              /\ \A j \in 1..Len(chart.keys) :
                    IsTopSelection(chart.vals[j],
                                   OfVendor(OfStatus(processed_data, st), chart.keys[j]),
                                   st, 3)

\* the place of position p of pool in the stable descending order: one more
\* than the number of positions with a larger key, or an equal key and
\* an earlier position
StableRank(pool, p, st) ==
    1 + Cardinality({q \in 1..Len(pool) :
                        \/ FGt(RankKey(pool[q], st), RankKey(pool[p], st))
                        \/ /\ FEq(RankKey(pool[q], st), RankKey(pool[p], st))
                           /\ q < p})

IsStableTop(selected, pool, st, k) ==
    /\ Len(selected) = Smaller(k, Len(pool))
    /\ \A p \in 1..Len(pool) :
          StableRank(pool, p, st) <= k => selected[StableRank(pool, p, st)] = pool[p]

\* the items of a list that have the key of x
Tied(items, x, st) ==
    SelectSeq(items, LAMBDA item : FEq(RankKey(item, st), RankKey(x, st)))

\* the selected items of each key are the first of the pool's items of that
\* key, in the pool's order
TiesInOrder(selected, pool, st) ==
    \A p \in 1..Len(pool) :
        /\ Len(Tied(selected, pool[p], st)) <= Len(Tied(pool, pool[p], st))
        /\ Tied(selected, pool[p], st) =
               SubSeq(Tied(pool, pool[p], st), 1, Len(Tied(selected, pool[p], st)))

\* C19: in the top-K ranking, items with equal sort key appear in their
\* original processed-list order, both in the ranked output and in deciding
\* which of several tied items fall inside the top K.
C19_StableRanking ==
    /\ pc = "top_chart" =>
          TiesInOrder(top_parts.parts, OfStatus(processed_data, top_parts.status),
                      top_parts.status)
    /\ pc = "vendor_chart" =>
          \A j \in 1..Len(vendor_top_parts.parts.keys) :
              TiesInOrder(vendor_top_parts.parts.vals[j],
                          OfVendor(OfStatus(processed_data, vendor_top_parts.status),
                                   vendor_top_parts.parts.keys[j]),
                          vendor_top_parts.status)

\* the rows of the upload that are accepted: none without a file, when reading
\* the file raises, or when a required column is missing
AcceptedUpload ==
    IF upload = "file" /\ RowsAreRead(df) THEN RowByRow(df, 1) ELSE <<>>

\* C20: in every run of main, whatever the upload outcome, the dataset passed
\* to process_data is non-empty: the accepted upload rows when there is at
\* least one, otherwise the built-in sample dataset; no upload outcome leads to
\* an unhandled exception before process_data is called.
C20_DatasetNeverEmpty ==
    /\ pc # "crashed"
    /\ pc # "start" =>
          /\ inventory_data # <<>>
          /\ inventory_data =
                IF AcceptedUpload # <<>> THEN AcceptedUpload ELSE load_sample_data
    /\ pc = "processed" =>
          /\ Len(processed_data) = Len(inventory_data)
          /\ \A i \in 1..Len(inventory_data) :
                processed_data[i].Material = inventory_data[i].Material

C20_Witness ==
    /\ pc = "processed"
    /\ upload = "file"
    /\ RowsAreRead(df)
    /\ AcceptedUpload = <<>>
    /\ inventory_data = load_sample_data
    /\ Len(processed_data) = 20

\* C21: for every item with NormQuantity = 0 and every tolerance t > 0,
\* process_data yields Variance_% = 0 and status Within Norms regardless of
\* Quantity, so an item with positive quantity and zero norm is never reported
\* as Excess Inventory.
C21_ZeroNormWithinNorms ==
    pc # "loaded" =>
        \A i \in Indices(processed_data) :
            FEq(inventory_data[i].RM_IN_QTY, Zero) =>
                /\ processed_data[i].Variance_pct = Zero
                /\ processed_data[i].Status = WithinNorms
                /\ processed_data[i].Status # Excess

\* an item with a positive quantity and a zero norm, processed
C21_Witness ==
    /\ pc = "processed"
    /\ Len(processed_data) = 1
    /\ inventory_data[1].RM_IN_QTY = Zero
    /\ inventory_data[1].QTY = FloatOf(30)
    /\ tolerance = 10
    /\ processed_data[1].Status = WithinNorms

\* the position in the processed list of the first item of a vendor
FirstSeen(v) == CHOOSE i \in ItemsOf(v) : \A j \in ItemsOf(v) : i <= j

\* C22: get_vendor_summary creates a vendor's accumulator on the vendor's
\* first occurrence and its result enumerates vendors in first-seen order of
\* the processed list; the key set equals exactly the set of Vendor values
\* occurring in the input, with 'Unknown' treated like any other key.
C22_VendorsFirstSeenOrder ==
    pc = "summarised" =>
        /\ VendorKeys = {processed_data[i].Vendor : i \in Indices(processed_data)}
        /\ Len(vendor_summary.keys) = Cardinality(VendorKeys)
        /\ Len(vendor_summary.vals) = Len(vendor_summary.keys)
        /\ \A a, b \in Indices(vendor_summary.keys) :
              a < b => FirstSeen(vendor_summary.keys[a]) < FirstSeen(vendor_summary.keys[b])
        /\ \A a \in Indices(vendor_summary.keys) :
              vendor_summary.vals[a].total_parts = Cardinality(ItemsOf(vendor_summary.keys[a]))

\* 'Unknown' seen before a named vendor, summarised
C22_Witness ==
    /\ pc = "summarised"
    /\ Len(processed_data) = 2
    /\ processed_data[1].Vendor = "Unknown"
    /\ processed_data[2].Vendor = "Vendor_A"
    /\ vendor_summary.keys = <<"Unknown", "Vendor_A">>

\* the sum over all vendors of one count of their accumulators
VendorSum(field) ==
    SumOver(VendorKeys, [v \in VendorKeys |-> Get(vendor_summary, v)[field]])

\* the sum over all vendors of one value of their accumulators
VendorValueSum(field) ==
    IntSumOver(VendorKeys, [v \in VendorKeys |-> Get(vendor_summary, v)[field]])

\* C23: the summary of process_data and the vendor summary built from its
\* output agree: for each status the vendors' parts counts of that status sum
\* to the summary count and their values of that status to the summary value;
\* hence the vendors' total_value sums to the sum of the three summary values.
C23_SummariesAgree ==
    pc = "summarised" =>
        /\ VendorSum("short_parts") = summary_data[Short].count
        /\ VendorSum("excess_parts") = summary_data[Excess].count
        /\ VendorSum("normal_parts") = summary_data[WithinNorms].count
        /\ VendorValueSum("short_value") = summary_data[Short].value
        /\ VendorValueSum("excess_value") = summary_data[Excess].value
        /\ VendorValueSum("normal_value") = summary_data[WithinNorms].value
        /\ VendorValueSum("total_value")
              = IntSumOver(Statuses, [s \in Statuses |-> summary_data[s].value])

\* two vendors, a short part of one and an excess part of the other
C23_Witness ==
    /\ pc = "summarised"
    /\ Len(vendor_summary.keys) = 2
    /\ summary_data[Short].count = 1
    /\ summary_data[Excess].count = 1
    /\ summary_data[Short].value # summary_data[Excess].value
    /\ VendorValueSum("total_value") = IntOf(3)

\* the excess parts ranked by signed Variance_Value are in the order that
\* ranking them by abs(Variance_Value) gives
ExcessRankedByAbs ==
    /\ pc = "top_chart" /\ top_parts.status = Excess =>
          IsStableTop(top_parts.parts, OfStatus(processed_data, Excess), Short, TopK)
    /\ pc = "vendor_chart" /\ vendor_top_parts.status = Excess =>
          \A j \in Indices(vendor_top_parts.parts.keys) :
              IsStableTop(vendor_top_parts.parts.vals[j],
                          OfVendor(OfStatus(processed_data, Excess),
                                   vendor_top_parts.parts.keys[j]),
                          Short, VendorTopK)

\* C24 as stated: for every processed item with a norm quantity >= 0 and every
\* tolerance >= 0, status and variance sign agree: every Excess Inventory item
\* has Variance_Value > 0 and every Short Inventory item has Variance_Value < 0;
\* consequently the excess parts ranked by signed Variance_Value are in the
\* order that ranking them by abs(Variance_Value) gives.
C24_StatusAndSignAgree ==
    /\ pc # "loaded" =>
          \A i \in Indices(processed_data) :
              FGe(processed_data[i].RM_IN_QTY, Zero) =>
                  /\ processed_data[i].Status = Excess =>
                        FGt(processed_data[i].Variance_Value, Zero)
                  /\ processed_data[i].Status = Short =>
                        FLt(processed_data[i].Variance_Value, Zero)
    /\ ExcessRankedByAbs

\* C24 (amended): for every processed item with a norm quantity >= 0 whose
\* Variance_Value is not nan and every tolerance >= 0, every Excess Inventory
\* item has Variance_Value > 0 and every Short Inventory item has
\* Variance_Value < 0; the excess parts ranked by signed Variance_Value are in
\* the order that ranking them by abs(Variance_Value) gives.
C24_SignAgreesUnlessNan ==
    /\ pc # "loaded" =>
          \A i \in Indices(processed_data) :
              (FGe(processed_data[i].RM_IN_QTY, Zero)
                 /\ ~IsNaN(processed_data[i].Variance_Value)) =>
                  /\ processed_data[i].Status = Excess =>
                        FGt(processed_data[i].Variance_Value, Zero)
                  /\ processed_data[i].Status = Short =>
                        FLt(processed_data[i].Variance_Value, Zero)
    /\ ExcessRankedByAbs

\* a zero norm, a short part and two excess parts, the larger surplus last in
\* the list and first in the chart
C24_Witness ==
    /\ pc = "top_chart"
    /\ top_parts.status = Excess
    /\ tolerance = 30
    /\ Len(processed_data) = 4
    /\ processed_data[1].RM_IN_QTY = Zero
    /\ processed_data[1].Status = WithinNorms
    /\ processed_data[2].Status = Short
    /\ processed_data[2].Variance_Value = FloatOf(-3)
    /\ processed_data[3].Status = Excess
    /\ processed_data[3].Variance_Value = FloatOf(1)
    /\ processed_data[4].Status = Excess
    /\ processed_data[4].Variance_Value = FloatOf(4)
    /\ top_parts.parts = <<processed_data[4], processed_data[3]>>

\* the statuses s1 at tolerance t1 and s2 at tolerance t2 >= t1 of one item
Monotone(s1, s2) ==
    /\ s1 = WithinNorms => s2 = WithinNorms
    /\ s2 = Excess => s1 = Excess
    /\ s2 = Short => s1 = Short

Classified == pc \in {"returned", "retuned"}

\* between two classifications of the same item the statuses are monotone in
\* the tolerance, and Excess never meets Short
MonotoneRetune ==
    [][Classified /\ pc' = "retuned" =>
          /\ qty' = qty /\ rm' = rm
          /\ FLe(tol, tol') => Monotone(status, status')
          /\ FLe(tol', tol) => Monotone(status', status)
          /\ {status, status'} # {Excess, Short}]_vars

\* C25 as stated: classification is monotone in tolerance: for the same item
\* and tolerances 0 < t1 <= t2, Within Norms at t1 gives Within Norms at t2,
\* Excess at t2 gives Excess at t1, Short at t2 gives Short at t1, and no item
\* is Excess at one tolerance and Short at another; an item with quantity >= 0
\* and norm quantity > 0 is never Short at a tolerance >= 100.
C25_MonotoneInTolerance ==
    /\ [](Classified /\ FGe(qty, Zero) /\ FGt(rm, Zero) /\ FGe(tol, FloatOf(100))
             => status # Short)
    /\ MonotoneRetune

\* C25 (amended): classification is monotone in tolerance: for the same item
\* and tolerances 0 < t1 <= t2, Within Norms at t1 gives Within Norms at t2,
\* Excess at t2 gives Excess at t1, Short at t2 gives Short at t1, and no item
\* is Excess at one tolerance and Short at another; an item with quantity >= 0
\* and a finite norm quantity > 0 is never Short at a tolerance >= 100.
C25_MonotoneForFiniteNorm ==
    /\ [](Classified /\ FGe(qty, Zero) /\ FGt(rm, Zero) /\ IsFinite(rm)
               /\ FGe(tol, FloatOf(100))
             => status # Short)
    /\ MonotoneRetune

\* an empty stock of a positive norm, short at the offered tolerances, is
\* within norms once the tolerance is retuned to 100
C25_Witness ==
    /\ pc = "retuned"
    /\ qty = Zero
    /\ FGt(rm, Zero)
    /\ variance_percent = FloatOf(-100)
    /\ tol = FloatOf(100)
    /\ status = WithinNorms

====
